---- MODULE Spec2Model ----
(***************************************************************************)
(* Verification model of the rune core.                                    *)
(*                                                                         *)
(* Part I: the metric B-tree of crates/text-buffer/src/metric.rs.          *)
(*                                                                         *)
(* A node (struct Internal) is the record                                  *)
(*     [leaf |-> BOOLEAN, metrics |-> Seq(Metric), children |-> Seq(...)]  *)
(* where leaf = TRUE stands for Children::Leaf (the children are opaque    *)
(* Leaf {} bodies) and leaf = FALSE for Children::Internal (the children   *)
(* are nodes).  A Metric is [bytes, chars].                                *)
(*                                                                         *)
(* Every function of the source that can panic (assert!, assert_eq!,       *)
(* unreachable!, todo!, Option::unwrap on None, index out of bounds, and   *)
(* usize subtraction below zero, which panics in the profile the tests are *)
(* built with) returns a record whose field `panic` is TRUE and whose      *)
(* field `why` names the panic site.                                       *)
(***************************************************************************)
EXTENDS Integers, Sequences, FiniteSets, TLC

\* const MAX / const MIN
MAX == 4
MIN == MAX \div 2

\* ---- bounds of the model ------------------------------------------------
\* Spec: char positions offered to insert / delete / delete_range
MaxPos == 3
\* Spec: no insert is offered once the tree holds this many leaves
MaxLeaves == 6
\* SpecDeep: the run of inserts that builds the tree stops at this many leaves
\* (eleven leaves are the fewest that make an internal node split)
MaxDeepLeaves == 11
\* SpecDeep: char positions offered to insert / delete / delete_range
MaxDeepPos == 2
\* no add is offered that would take the total char count past this
MaxTotal == 3
\* SpecRange: no insert is offered once the tree holds this many leaves
MaxRangeLeaves == 9
\* SpecRange: char positions offered to insert / delete_range
MaxRangePos == 2
\* SpecEdit: no insert is offered once the tree holds this many leaves
MaxEditLeaves == 11
\* SpecEdit: char positions offered to insert / delete
MaxEditPos == 2
\* SpecParent: no insert is offered once the tree holds this many leaves
MaxParentLeaves == 11
\* SpecParent: char positions offered to insert
MaxParentPos == 2
\* SpecGc, SpecConst: the arena holds at most this many bodies
MaxBodies == 3
\* SpecGc: the root set holds at most this many slots
MaxSlots == 1
\* SpecTag: the width of a machine word in bits (64 in the build)
WordBits == 20
\* SpecTag: the integers and addresses converted lie within this distance of
\* zero, of the ends of the fixnum range and of the ends of their type
MaxNear == 2
\* the bodies of the arenas whose mark phase is followed step by step
MaxMarkBodies == 2
\* the length of the run metric(1), ..., metric(MaxRun) of test_search_chars
MaxRun == 19

\* ---- Metric -------------------------------------------------------------
Metric(b, c) == [bytes |-> b, chars |-> c]

\* Metric::default()
MetricDefault == Metric(0, 0)

\* test helper fn metric(x): bytes = 2x, chars = x
metric(x) == Metric(x * 2, x)

\* impl Add / AddAssign for Metric
MAdd(a, b) == Metric(a.bytes + b.bytes, a.chars + b.chars)

\* a - b does not go below zero in either component (usize)
Fits(a, b) == a.bytes >= b.bytes /\ a.chars >= b.chars

\* impl Sub / SubAssign for Metric (callers test Fits first)
MSub(a, b) == Metric(a.bytes - b.bytes, a.chars - b.chars)

RECURSIVE SumFrom(_, _)
SumFrom(ms, i) ==
    IF i > Len(ms) THEN MetricDefault ELSE MAdd(ms[i], SumFrom(ms, i + 1))

\* impl Sum for Metric
MSum(ms) == SumFrom(ms, 1)

\* ---- sequences (SmallVec operations, 0-based indices as in the source) ---
\* v.insert(idx, x)
SeqInsert(s, idx, x) == SubSeq(s, 1, idx) \o <<x>> \o SubSeq(s, idx + 1, Len(s))

\* v.remove(idx)
SeqRemove(s, idx) == SubSeq(s, 1, idx) \o SubSeq(s, idx + 2, Len(s))

\* v.drain(from..to), what stays in v
SeqDrain(s, from, to) == SubSeq(s, 1, from) \o SubSeq(s, to + 1, Len(s))

\* v[idx] = x
SeqSet(s, idx, x) == [s EXCEPT ![idx + 1] = x]

\* v[idx]
At(s, idx) == s[idx + 1]

\* ---- nodes --------------------------------------------------------------
\* struct Leaf {}
LeafBody == [body |-> "Leaf"]

Node(isLeaf, ms, cs) == [leaf |-> isLeaf, metrics |-> ms, children |-> cs]

\* Internal::new_leaf / new_root
NewRoot == Node(TRUE, <<MetricDefault>>, <<LeafBody>>)

\* Internal::metrics
NodeMetrics(n) == MSum(n.metrics)

\* Internal::len
NodeLen(n) == Len(n.children)

Panic(why) == [panic |-> TRUE, why |-> why]

\* Option<Box<Internal>>
None == [some |-> FALSE]
Some(n) == [some |-> TRUE, node |-> n]

\* Internal::assert_invariants: TRUE when no assertion fails
AssertInvariants(n) ==
    /\ Len(n.metrics) = Len(n.children)
    /\ Len(n.metrics) <= MAX
    /\ IF n.leaf
       THEN Len(n.metrics) > 0
       ELSE /\ Len(n.metrics) >= MIN
            /\ \A i \in 1..Len(n.children) :
                   NodeMetrics(n.children[i]) = n.metrics[i]

\* ---- insert -------------------------------------------------------------
\* insert_internal with the line `metrics[idx] = children[idx].metrics()` left
\* out: the summary of the child that was split keeps its old value
InsertInternalStale(children, metrics, idx, new_child) ==
    LET len == Len(children)
        i1 == idx + 1
        middle == MAX \div 2
    IN  IF len < MAX
        THEN [panic |-> FALSE,
              metrics |-> SeqInsert(metrics, i1, NodeMetrics(new_child)),
              children |-> SeqInsert(children, i1, new_child),
              new |-> None]
        ELSE IF len # MAX THEN Panic("insert_internal: assert_eq len MAX")
        ELSE LET lm == SubSeq(metrics, 1, middle)
                 lc == SubSeq(children, 1, middle)
                 rm == SubSeq(metrics, middle + 1, Len(metrics))
                 rc == SubSeq(children, middle + 1, len)
             IN  IF i1 < middle
                 THEN [panic |-> FALSE,
                       metrics |-> SeqInsert(lm, i1, NodeMetrics(new_child)),
                       children |-> SeqInsert(lc, i1, new_child),
                       new |-> Some(Node(FALSE, rm, rc))]
                 ELSE [panic |-> FALSE,
                       metrics |-> lm,
                       children |-> lc,
                       new |-> Some(Node(FALSE,
                                  SeqInsert(rm, i1 - middle, NodeMetrics(new_child)),
                                  SeqInsert(rc, i1 - middle, new_child)))]

\* Internal::insert_internal; children[idx] is the child already updated by
\* the recursive call
InsertInternal(children, metrics, idx, new_child) ==
    LET len == Len(children)
        m0 == SeqSet(metrics, idx, NodeMetrics(At(children, idx)))
        i1 == idx + 1
        middle == MAX \div 2
    IN  IF len < MAX
        THEN [panic |-> FALSE,
              metrics |-> SeqInsert(m0, i1, NodeMetrics(new_child)),
              children |-> SeqInsert(children, i1, new_child),
              new |-> None]
        ELSE IF len # MAX THEN Panic("insert_internal: assert_eq len MAX")
        ELSE LET lm == SubSeq(m0, 1, middle)
                 lc == SubSeq(children, 1, middle)
                 rm == SubSeq(m0, middle + 1, Len(m0))
                 rc == SubSeq(children, middle + 1, len)
             IN  IF i1 < middle
                 THEN [panic |-> FALSE,
                       metrics |-> SeqInsert(lm, i1, NodeMetrics(new_child)),
                       children |-> SeqInsert(lc, i1, new_child),
                       new |-> Some(Node(FALSE, rm, rc))]
                 ELSE [panic |-> FALSE,
                       metrics |-> lm,
                       children |-> lc,
                       new |-> Some(Node(FALSE,
                                  SeqInsert(rm, i1 - middle, NodeMetrics(new_child)),
                                  SeqInsert(rc, i1 - middle, new_child)))]

\* insert_leaf with the two halves of the split leaf in the wrong order: the
\* remainder is stored at idx and the needle after it
InsertLeafSwapped(children, metrics, idx, needle) ==
    LET len == Len(children)
        i1 == idx + 1
        middle == MAX \div 2
    IN  IF ~Fits(At(metrics, idx), needle)
        THEN Panic("insert_leaf: metrics[idx] - needle")
        ELSE
        LET new_metric == needle
            m0 == SeqSet(metrics, idx, MSub(At(metrics, idx), needle))
        IN  IF len < MAX
            THEN [panic |-> FALSE,
                  metrics |-> SeqInsert(m0, i1, new_metric),
                  children |-> SeqInsert(children, i1, LeafBody),
                  new |-> None]
            ELSE IF len # MAX THEN Panic("insert_leaf: assert_eq len MAX")
            ELSE LET lm == SubSeq(m0, 1, middle)
                     lc == SubSeq(children, 1, middle)
                     rm == SubSeq(m0, middle + 1, Len(m0))
                     rc == SubSeq(children, middle + 1, len)
                 IN  IF i1 < middle
                     THEN [panic |-> FALSE,
                           metrics |-> SeqInsert(lm, i1, new_metric),
                           children |-> SeqInsert(lc, i1, LeafBody),
                           new |-> Some(Node(TRUE, rm, rc))]
                     ELSE [panic |-> FALSE,
                           metrics |-> lm,
                           children |-> lc,
                           new |-> Some(Node(TRUE,
                                      SeqInsert(rm, i1 - middle, new_metric),
                                      SeqInsert(rc, i1 - middle, LeafBody)))]

\* Internal::insert_leaf
InsertLeaf(children, metrics, idx, needle) ==
    LET len == Len(children)
        i1 == idx + 1
        middle == MAX \div 2
    IN  IF ~Fits(At(metrics, idx), needle)
        THEN Panic("insert_leaf: metrics[idx] - needle")
        ELSE
        LET new_metric == MSub(At(metrics, idx), needle)
            m0 == SeqSet(metrics, idx, needle)
        IN  IF len < MAX
            THEN [panic |-> FALSE,
                  metrics |-> SeqInsert(m0, i1, new_metric),
                  children |-> SeqInsert(children, i1, LeafBody),
                  new |-> None]
            ELSE IF len # MAX THEN Panic("insert_leaf: assert_eq len MAX")
            ELSE LET lm == SubSeq(m0, 1, middle)
                     lc == SubSeq(children, 1, middle)
                     rm == SubSeq(m0, middle + 1, Len(m0))
                     rc == SubSeq(children, middle + 1, len)
                 IN  IF i1 < middle
                     THEN [panic |-> FALSE,
                           metrics |-> SeqInsert(lm, i1, new_metric),
                           children |-> SeqInsert(lc, i1, LeafBody),
                           new |-> Some(Node(TRUE, rm, rc))]
                     ELSE [panic |-> FALSE,
                           metrics |-> lm,
                           children |-> lc,
                           new |-> Some(Node(TRUE,
                                      SeqInsert(rm, i1 - middle, new_metric),
                                      SeqInsert(rc, i1 - middle, LeafBody)))]

\* Internal::push_leaf
PushLeaf(children, metrics, m) ==
    LET len == Len(children)
    IN  IF len < MAX
        THEN [panic |-> FALSE,
              metrics |-> Append(metrics, m),
              children |-> Append(children, LeafBody),
              new |-> None]
        ELSE IF len # MAX THEN Panic("push_leaf: assert_eq len MAX")
        ELSE [panic |-> FALSE,
              metrics |-> metrics,
              children |-> children,
              new |-> Some(Node(TRUE, <<m>>, <<LeafBody>>))]

\* the loop of insert_impl with the line `needle -= *metric` left out
RECURSIVE InsertScanNoDec(_, _, _)
InsertScanNoDec(metrics, idx, needle) ==
    LET m == At(metrics, idx)
    IN  IF idx = Len(metrics) - 1 \/ needle.chars < m.chars
        THEN [panic |-> FALSE, idx |-> idx, needle |-> needle]
        ELSE InsertScanNoDec(metrics, idx + 1, needle)

\* the for loop of insert_impl: the index it stops at (idx == last or
\* needle.chars < metric.chars) and the needle decremented by the metrics passed
RECURSIVE InsertScan(_, _, _)
InsertScan(metrics, idx, needle) ==
    LET m == At(metrics, idx)
    IN  IF idx = Len(metrics) - 1 \/ needle.chars < m.chars
        THEN [panic |-> FALSE, idx |-> idx, needle |-> needle]
        ELSE IF ~Fits(needle, m) THEN Panic("insert_impl: needle -= metric")
        ELSE InsertScan(metrics, idx + 1, MSub(needle, m))

\* Internal::insert_impl; returns [panic, node (self afterwards), new]
RECURSIVE InsertImpl(_, _)
InsertImpl(self, needle0) ==
    IF ~AssertInvariants(self) THEN Panic("insert_impl: assert_invariants")
    ELSE
    LET s == InsertScan(self.metrics, 0, needle0)
    IN  IF s.panic THEN s
        ELSE
        LET idx == s.idx
            needle == s.needle
            mt == At(self.metrics, idx)
            in_range == needle.chars < mt.chars
        IN  IF self.leaf
            THEN LET r == IF in_range
                          THEN InsertLeaf(self.children, self.metrics, idx, needle)
                          ELSE IF ~Fits(needle, mt)
                               THEN Panic("insert_impl: needle -= metric (push)")
                               ELSE PushLeaf(self.children, self.metrics, MSub(needle, mt))
                 IN  IF r.panic THEN r
                     ELSE [panic |-> FALSE,
                           node |-> Node(TRUE, r.metrics, r.children),
                           new |-> r.new]
            ELSE LET c == InsertImpl(At(self.children, idx), needle)
                 IN  IF c.panic THEN c
                     ELSE
                     LET children == SeqSet(self.children, idx, c.node)
                     IN  IF c.new.some
                         THEN LET r == InsertInternal(children, self.metrics, idx, c.new.node)
                              IN  IF r.panic THEN r
                                  ELSE [panic |-> FALSE,
                                        node |-> Node(FALSE, r.metrics, r.children),
                                        new |-> r.new]
                         ELSE [panic |-> FALSE,
                               node |-> Node(FALSE,
                                   IF in_range THEN self.metrics
                                   ELSE SeqSet(self.metrics, idx,
                                               NodeMetrics(children[Len(children)])),
                                   children),
                               new |-> None]

\* insert with a root split that hangs the first child of the new right node
\* beside the old root instead of the right node itself
InsertRootFlat(self, needle) ==
    LET r == InsertImpl(self, needle)
    IN  IF r.panic THEN r
        ELSE IF ~r.new.some THEN [panic |-> FALSE, root |-> r.node]
        ELSE IF r.new.node.leaf
        THEN [panic |-> FALSE,
              root |-> Node(FALSE,
                            <<NodeMetrics(r.node), NodeMetrics(r.new.node)>>,
                            <<r.node, r.new.node>>)]
        ELSE [panic |-> FALSE,
              root |-> Node(FALSE,
                            <<NodeMetrics(r.node)>> \o r.new.node.metrics,
                            <<r.node>> \o r.new.node.children)]

\* Internal::insert; returns [panic, root]
InsertRoot(self, needle) ==
    LET r == InsertImpl(self, needle)
    IN  IF r.panic THEN r
        ELSE IF ~r.new.some THEN [panic |-> FALSE, root |-> r.node]
        ELSE [panic |-> FALSE,
              root |-> Node(FALSE,
                            <<NodeMetrics(r.node), NodeMetrics(r.new.node)>>,
                            <<r.node, r.new.node>>)]

\* ---- delete -------------------------------------------------------------
\* enum Node: a stolen child together with the variant it is wrapped in
StolenNode(isLeaf, child) == [leaf |-> isLeaf, child |-> child]

\* steal_greatest refusing to donate at MIN children whatever the children are:
\* a node that holds MIN leaves gives none
StealGreatestAtMin(self) ==
    LET len == Len(self.children)
    IN  IF ~self.leaf /\ len \in {0, 1}
        THEN Panic("steal_greatest: node should never be below MIN")
        ELSE IF self.leaf /\ len = 0
        THEN Panic("steal_greatest: leaf node should never be empty")
        ELSE IF len <= MIN
        THEN [panic |-> FALSE, some |-> FALSE, rest |-> self]
        ELSE [panic |-> FALSE, some |-> TRUE,
              node |-> StolenNode(self.leaf, self.children[len]),
              metric |-> self.metrics[Len(self.metrics)],
              rest |-> Node(self.leaf,
                            SubSeq(self.metrics, 1, Len(self.metrics) - 1),
                            SubSeq(self.children, 1, len - 1))]

\* Internal::steal_greatest; returns [panic, some, node, metric, rest], rest
\* being self afterwards
StealGreatest(self) ==
    LET len == Len(self.children)
    IN  IF ~self.leaf /\ len \in {0, 1}
        THEN Panic("steal_greatest: node should never be below MIN")
        ELSE IF self.leaf /\ len = 0
        THEN Panic("steal_greatest: leaf node should never be empty")
        ELSE IF (~self.leaf /\ len = MIN) \/ (self.leaf /\ len = 1)
        THEN [panic |-> FALSE, some |-> FALSE, rest |-> self]
        ELSE IF Len(self.metrics) = 0
        THEN Panic("steal_greatest: metrics.pop().unwrap()")
        ELSE [panic |-> FALSE, some |-> TRUE,
              node |-> StolenNode(self.leaf, self.children[len]),
              metric |-> self.metrics[Len(self.metrics)],
              rest |-> Node(self.leaf,
                            SubSeq(self.metrics, 1, Len(self.metrics) - 1),
                            SubSeq(self.children, 1, len - 1))]

\* Internal::steal_least
StealLeast(self) ==
    LET len == Len(self.children)
    IN  IF ~self.leaf /\ len \in {0, 1}
        THEN Panic("steal_least: node should never be below MIN")
        ELSE IF self.leaf /\ len = 0
        THEN Panic("steal_least: leaf node should never be empty")
        ELSE IF (~self.leaf /\ len = MIN) \/ (self.leaf /\ len = 1)
        THEN [panic |-> FALSE, some |-> FALSE, rest |-> self]
        ELSE IF Len(self.metrics) = 0
        THEN Panic("steal_least: metrics.remove(0)")
        ELSE [panic |-> FALSE, some |-> TRUE,
              node |-> StolenNode(self.leaf, self.children[1]),
              metric |-> self.metrics[1],
              rest |-> Node(self.leaf, Tail(self.metrics), Tail(self.children))]

\* merge_node with `self.metrics[0] = metric` for `self.metrics[0] += metric`:
\* the metric of the leaf being deleted is dropped
MergeNodeReplace(self, node, m, idx) ==
    IF self.leaf # node.leaf
    THEN Panic("merge_node: cannot merge internal and leaf nodes")
    ELSE IF ~self.leaf
    THEN IF idx > Len(self.metrics) \/ idx > Len(self.children)
         THEN Panic("merge_node: insert index out of bounds")
         ELSE [panic |-> FALSE,
               node |-> Node(FALSE, SeqInsert(self.metrics, idx, m),
                             SeqInsert(self.children, idx, node.child))]
    ELSE IF Len(self.children) = 0
    THEN [panic |-> FALSE,
          node |-> Node(TRUE, Append(self.metrics, m),
                        Append(self.children, node.child))]
    ELSE IF Len(self.children) = 1
    THEN [panic |-> FALSE,
          node |-> Node(TRUE, SeqSet(self.metrics, 0, m),
                        SeqSet(self.children, 0, node.child))]
    ELSE Panic("merge_node: unreachable leaf count")

\* Internal::merge_node; returns [panic, node (self afterwards)]
MergeNode(self, node, m, idx) ==
    IF self.leaf # node.leaf
    THEN Panic("merge_node: cannot merge internal and leaf nodes")
    ELSE IF ~self.leaf
    THEN IF idx > Len(self.metrics) \/ idx > Len(self.children)
         THEN Panic("merge_node: insert index out of bounds")
         ELSE [panic |-> FALSE,
               node |-> Node(FALSE, SeqInsert(self.metrics, idx, m),
                             SeqInsert(self.children, idx, node.child))]
    ELSE IF Len(self.children) = 0
    THEN [panic |-> FALSE,
          node |-> Node(TRUE, Append(self.metrics, m),
                        Append(self.children, node.child))]
    ELSE IF Len(self.children) = 1
    THEN IF Len(self.metrics) = 0
         THEN Panic("merge_node: metrics[0] out of bounds")
         ELSE [panic |-> FALSE,
               node |-> Node(TRUE, SeqSet(self.metrics, 0, MAdd(self.metrics[1], m)),
                             SeqSet(self.children, 0, node.child))]
    ELSE Panic("merge_node: unreachable leaf count")

\* Internal::merge_sibling; returns [panic, node (self afterwards)]; right is
\* dropped by the caller
MergeSibling(self, right) ==
    IF self.leaf # right.leaf
    THEN Panic("merge_sibling: cannot merge internal and leaf nodes")
    ELSE IF ~self.leaf
    THEN [panic |-> FALSE,
          node |-> Node(FALSE, self.metrics \o right.metrics,
                        self.children \o right.children)]
    ELSE IF Len(self.children) # 1 \/ Len(right.children) # 1
            \/ Len(self.metrics) # 1 \/ Len(right.metrics) # 1
    THEN Panic("merge_sibling: assert_eq len 1")
    ELSE [panic |-> FALSE,
          node |-> Node(TRUE, <<MAdd(self.metrics[1], right.metrics[1])>>,
                        <<right.children[1]>>)]

\* the for loop of delete_impl: the first index with pos.chars < metric.chars
\* and pos decremented by the metrics passed
RECURSIVE DeleteScan(_, _, _)
\* the loop of delete_impl with the line `pos -= metric` left out
DeleteScanNoDec(metrics, idx, pos) ==
    IF idx >= Len(metrics)
    THEN Panic("delete_impl: unreachable, we should always recurse into a child node")
    ELSE LET m == At(metrics, idx)
         IN  IF pos.chars < m.chars
             THEN [panic |-> FALSE, idx |-> idx, pos |-> pos]
             ELSE DeleteScan(metrics, idx + 1, pos)

DeleteScan(metrics, idx, pos) ==
    IF idx >= Len(metrics)
    THEN Panic("delete_impl: unreachable, we should always recurse into a child node")
    ELSE LET m == At(metrics, idx)
         IN  IF pos.chars < m.chars
             THEN [panic |-> FALSE, idx |-> idx, pos |-> pos]
             ELSE IF ~Fits(pos, m) THEN Panic("delete_impl: pos -= metric")
             ELSE DeleteScan(metrics, idx + 1, MSub(pos, m))

\* the internal branch of delete_impl once the child reported needs_merge;
\* children[idx] is the child already updated by the recursive call
DeleteRebalance(children, metrics, idx) ==
    LET left == IF idx >= 1 THEN StealGreatest(At(children, idx - 1))
                ELSE [panic |-> FALSE, some |-> FALSE]
    IN  IF left.panic THEN left
        ELSE IF left.some
        THEN LET mg == MergeNode(At(children, idx), left.node, left.metric, 0)
             IN  IF mg.panic THEN mg
                 ELSE IF ~Fits(At(metrics, idx - 1), left.metric)
                 THEN Panic("delete_impl: metrics[idx - 1] -= node_metric")
                 ELSE [panic |-> FALSE, needs_merge |-> FALSE,
                       children |-> SeqSet(SeqSet(children, idx, mg.node),
                                           idx - 1, left.rest),
                       metrics |-> SeqSet(SeqSet(metrics, idx,
                                              MAdd(At(metrics, idx), left.metric)),
                                          idx - 1,
                                          MSub(At(metrics, idx - 1), left.metric))]
        ELSE
        LET right == IF idx + 1 < Len(children) THEN StealLeast(At(children, idx + 1))
                     ELSE [panic |-> FALSE, some |-> FALSE]
        IN  IF right.panic THEN right
            ELSE IF right.some
            THEN LET under == At(children, idx)
                     mg == MergeNode(under, right.node, right.metric, Len(under.metrics))
                 IN  IF mg.panic THEN mg
                     ELSE IF ~Fits(At(metrics, idx + 1), right.metric)
                     THEN Panic("delete_impl: metrics[idx + 1] -= node_metric")
                     ELSE [panic |-> FALSE, needs_merge |-> FALSE,
                           children |-> SeqSet(SeqSet(children, idx, mg.node),
                                               idx + 1, right.rest),
                           metrics |-> SeqSet(SeqSet(metrics, idx,
                                                  MAdd(At(metrics, idx), right.metric)),
                                              idx + 1,
                                              MSub(At(metrics, idx + 1), right.metric))]
            ELSE
            LET right_idx == IF idx # 0 THEN idx ELSE idx + 1
            IN  IF right_idx >= Len(children)
                THEN Panic("delete_impl: split_at_mut / right[0] out of bounds")
                ELSE
                LET ms == MergeSibling(At(children, right_idx - 1), At(children, right_idx))
                IN  IF ms.panic THEN ms
                    ELSE IF right_idx >= Len(metrics)
                    THEN Panic("delete_impl: metrics.remove out of bounds")
                    ELSE
                    LET ch == SeqRemove(SeqSet(children, right_idx - 1, ms.node), right_idx)
                        right_metric == At(metrics, right_idx)
                        mt == SeqRemove(metrics, right_idx)
                    IN  [panic |-> FALSE, needs_merge |-> Len(ch) < MIN,
                         children |-> ch,
                         metrics |-> SeqSet(mt, right_idx - 1,
                                            MAdd(At(mt, right_idx - 1), right_metric))]

\* Internal::delete_impl; returns [panic, needs_merge, node (self afterwards)]
RECURSIVE DeleteImpl(_, _)
DeleteImpl(self, pos0) ==
    IF ~AssertInvariants(self) THEN Panic("delete_impl: assert_invariants")
    ELSE
    LET s == DeleteScan(self.metrics, 0, pos0)
    IN  IF s.panic THEN s
        ELSE
        LET idx == s.idx
            mt == At(self.metrics, idx)
        IN  IF self.leaf
            THEN IF Len(self.children) > 1
                 THEN LET nb == IF idx = 0 THEN idx + 1 ELSE idx - 1
                          m1 == SeqSet(self.metrics, nb, MAdd(At(self.metrics, nb), mt))
                      IN  [panic |-> FALSE, needs_merge |-> FALSE,
                           node |-> Node(TRUE, SeqRemove(m1, idx),
                                         SeqRemove(self.children, idx))]
                 ELSE [panic |-> FALSE, needs_merge |-> TRUE, node |-> self]
            ELSE LET c == DeleteImpl(At(self.children, idx), s.pos)
                 IN  IF c.panic THEN c
                     ELSE
                     LET children == SeqSet(self.children, idx, c.node)
                     IN  IF ~c.needs_merge
                         THEN [panic |-> FALSE, needs_merge |-> FALSE,
                               node |-> Node(FALSE, self.metrics, children)]
                         ELSE LET r == DeleteRebalance(children, self.metrics, idx)
                              IN  IF r.panic THEN r
                                  ELSE [panic |-> FALSE, needs_merge |-> r.needs_merge,
                                        node |-> Node(FALSE, r.metrics, r.children)]

\* Internal::delete; returns [panic, root]
DeleteRoot(self, pos) ==
    LET r == DeleteImpl(self, pos)
    IN  IF r.panic THEN r
        ELSE IF ~r.needs_merge THEN [panic |-> FALSE, root |-> r.node]
        ELSE IF Len(r.node.metrics) # 1 THEN Panic("delete: assert_eq metrics.len 1")
        ELSE IF Len(r.node.children) # 1 THEN Panic("delete: assert_eq children.len 1")
        ELSE IF r.node.leaf THEN Panic("delete: todo delete final node")
        ELSE [panic |-> FALSE, root |-> r.node.children[1]]

\* ---- search -------------------------------------------------------------
\* const BYTE / const CHAR
BYTE == 0
CHAR == 1

\* Internal::search_impl and its for loop from index idx on; return
\* [panic, metric]
RECURSIVE SearchImpl(_, _, _)
RECURSIVE SearchLoop(_, _, _, _, _)
\* the loop of search_impl with `needle <= pos` in place of `needle < pos`
SearchLoopInclusive(self, type, idx, needle, sum) ==
    IF idx >= Len(self.metrics) \/ needle = 0
    THEN [panic |-> FALSE, metric |-> sum]
    ELSE LET m == At(self.metrics, idx)
             pos == IF type = BYTE THEN m.bytes ELSE m.chars
         IN  IF needle <= pos
             THEN IF self.leaf
                  THEN [panic |-> FALSE, metric |-> sum]
                  ELSE LET c == SearchImpl(At(self.children, idx), type, needle)
                       IN  IF c.panic THEN c
                           ELSE [panic |-> FALSE, metric |-> MAdd(sum, c.metric)]
             ELSE SearchLoop(self, type, idx + 1, needle - pos, MAdd(sum, m))

SearchLoop(self, type, idx, needle, sum) ==
    IF idx >= Len(self.metrics) \/ needle = 0
    THEN [panic |-> FALSE, metric |-> sum]
    ELSE LET m == At(self.metrics, idx)
             pos == IF type = BYTE THEN m.bytes ELSE m.chars
         IN  IF needle < pos
             THEN IF self.leaf
                  THEN [panic |-> FALSE, metric |-> sum]
                  ELSE LET c == SearchImpl(At(self.children, idx), type, needle)
                       IN  IF c.panic THEN c
                           ELSE [panic |-> FALSE, metric |-> MAdd(sum, c.metric)]
             ELSE SearchLoop(self, type, idx + 1, needle - pos, MAdd(sum, m))

SearchImpl(self, type, needle) ==
    IF ~AssertInvariants(self) THEN Panic("search_impl: assert_invariants")
    ELSE SearchLoop(self, type, 0, needle, MetricDefault)

\* Internal::search_byte
SearchByte(self, bytes) == SearchImpl(self, BYTE, bytes)

\* Internal::search_char
SearchChar(self, chars) == SearchImpl(self, CHAR, chars)

\* ---- add / remove -------------------------------------------------------
\* the loop of add and of remove with `char_pos < pos` for its test: a
\* position at the end of a child is looked for in the next one
RECURSIVE AdjustScanStrict(_, _, _)
AdjustScanStrict(metrics, idx, char_pos) ==
    IF idx >= Len(metrics)
    THEN Panic("add/remove: unreachable, we should always recurse into a child node")
    ELSE LET pos == At(metrics, idx).chars
         IN  IF char_pos < pos
             THEN [panic |-> FALSE, idx |-> idx, char_pos |-> char_pos]
             ELSE AdjustScanStrict(metrics, idx + 1, char_pos - pos)

\* the for loop of add and of remove: the first index with char_pos <= metric.chars
RECURSIVE AdjustScan(_, _, _)
AdjustScan(metrics, idx, char_pos) ==
    IF idx >= Len(metrics)
    THEN Panic("add/remove: unreachable, we should always recurse into a child node")
    ELSE LET pos == At(metrics, idx).chars
         IN  IF char_pos <= pos
             THEN [panic |-> FALSE, idx |-> idx, char_pos |-> char_pos]
             ELSE AdjustScan(metrics, idx + 1, char_pos - pos)

\* Internal::add; returns [panic, node (self afterwards)]
RECURSIVE Add(_, _, _)
Add(self, char_pos, new) ==
    IF ~AssertInvariants(self) THEN Panic("add: assert_invariants")
    ELSE
    LET s == AdjustScan(self.metrics, 0, char_pos)
    IN  IF s.panic THEN s
        ELSE
        LET ms == SeqSet(self.metrics, s.idx, MAdd(At(self.metrics, s.idx), new))
        IN  IF self.leaf
            THEN [panic |-> FALSE, node |-> Node(TRUE, ms, self.children)]
            ELSE LET c == Add(At(self.children, s.idx), s.char_pos, new)
                 IN  IF c.panic THEN c
                     ELSE [panic |-> FALSE,
                           node |-> Node(FALSE, ms, SeqSet(self.children, s.idx, c.node))]

\* Internal::remove; returns [panic, node (self afterwards)]
RECURSIVE Remove(_, _, _)
Remove(self, char_pos, update) ==
    IF ~AssertInvariants(self) THEN Panic("remove: assert_invariants")
    ELSE
    LET s == AdjustScan(self.metrics, 0, char_pos)
    IN  IF s.panic THEN s
        ELSE IF ~Fits(At(self.metrics, s.idx), update)
        THEN Panic("remove: metric -= update")
        ELSE
        LET ms == SeqSet(self.metrics, s.idx, MSub(At(self.metrics, s.idx), update))
        IN  IF self.leaf
            THEN [panic |-> FALSE, node |-> Node(TRUE, ms, self.children)]
            ELSE LET c == Remove(At(self.children, s.idx), s.char_pos, update)
                 IN  IF c.panic THEN c
                     ELSE [panic |-> FALSE,
                           node |-> Node(FALSE, ms, SeqSet(self.children, s.idx, c.node))]

\* ---- delete_range -------------------------------------------------------
\* Option<NonZeroUsize> is a number: 0 for None, n for Some(n)
\* NonZeroUsize::new(MIN.saturating_sub(len))
NeededFor(len) == IF len >= MIN THEN 0 ELSE MIN - len

\* Internal::get_delete_indices from index idx on; sidx / eidx are -1 for
\* None; returns [panic, start_idx, end_idx, start, end]
RECURSIVE GetDeleteIndicesFrom(_, _, _, _, _)
GetDeleteIndicesFrom(metrics, idx, sidx, start, end) ==
    IF idx >= Len(metrics)
    THEN Panic("get_delete_indices: unwrap on None")
    ELSE LET m == At(metrics, idx)
             sidx1 == IF sidx = -1 /\ (start.chars < m.chars \/ start.chars = 0)
                      THEN idx ELSE sidx
         IN  IF end.chars <= m.chars
             THEN IF sidx1 = -1 THEN Panic("get_delete_indices: start_idx.unwrap()")
                  ELSE [panic |-> FALSE, start_idx |-> sidx1, end_idx |-> idx,
                        start |-> start, end |-> end]
             ELSE IF sidx1 = -1 /\ ~Fits(start, m)
             THEN Panic("get_delete_indices: start -= metric")
             ELSE IF ~Fits(end, m)
             THEN Panic("get_delete_indices: end -= metric")
             ELSE GetDeleteIndicesFrom(metrics, idx + 1, sidx1,
                                       IF sidx1 = -1 THEN MSub(start, m) ELSE start,
                                       MSub(end, m))

\* Internal::get_delete_indices
GetDeleteIndices(self, start, end) ==
    GetDeleteIndicesFrom(self.metrics, 0, -1, start, end)

\* Internal::merge_children; returns [panic, needed, children, metrics]
MergeChildren(children, metrics, idx) ==
    LET right_idx == IF idx # 0 THEN idx ELSE idx + 1
        left_idx == right_idx - 1
    IN  IF right_idx >= Len(children)
        THEN Panic("merge_children: split_at_mut / right[0] out of bounds")
        ELSE
        LET ms == MergeSibling(At(children, left_idx), At(children, right_idx))
        IN  IF ms.panic THEN ms
            ELSE IF right_idx >= Len(metrics)
            THEN Panic("merge_children: metrics.remove out of bounds")
            ELSE
            LET ch == SeqRemove(SeqSet(children, left_idx, ms.node), right_idx)
                m == At(metrics, right_idx)
                mt == SeqRemove(metrics, right_idx)
            IN  [panic |-> FALSE, needed |-> NeededFor(Len(ch)),
                 children |-> ch,
                 metrics |-> SeqSet(mt, left_idx, MAdd(At(mt, left_idx), m))]

\* the for loop of try_steal_left, i steals already done
RECURSIVE TryStealLeftLoop(_, _, _, _, _)
TryStealLeftLoop(children, metrics, idx, needed, i) ==
    IF i >= needed
    THEN [panic |-> FALSE, needed |-> 0, children |-> children, metrics |-> metrics]
    ELSE LET left_idx == idx - 1
             st == StealGreatest(At(children, left_idx))
         IN  IF st.panic THEN st
             ELSE IF ~st.some
             THEN [panic |-> FALSE, needed |-> needed - i,
                   children |-> children, metrics |-> metrics]
             ELSE LET mg == MergeNode(At(children, idx), st.node, st.metric, 0)
                  IN  IF mg.panic THEN mg
                      ELSE IF ~Fits(At(metrics, left_idx), st.metric)
                      THEN Panic("try_steal_left: metrics[left_idx] -= node_metric")
                      ELSE TryStealLeftLoop(
                               SeqSet(SeqSet(children, idx, mg.node), left_idx, st.rest),
                               SeqSet(SeqSet(metrics, idx,
                                             MAdd(At(metrics, idx), st.metric)),
                                      left_idx, MSub(At(metrics, left_idx), st.metric)),
                               idx, needed, i + 1)

\* Internal::try_steal_left; returns [panic, needed, children, metrics]
TryStealLeft(children, metrics, idx, needed) ==
    IF ~(idx < Len(children)) THEN Panic("try_steal_left: assert idx < children.len")
    ELSE IF ~(idx < Len(metrics)) THEN Panic("try_steal_left: assert idx < metrics.len")
    ELSE IF ~(needed <= MIN) THEN Panic("try_steal_left: assert needed <= MIN")
    ELSE IF ~(needed > 0) THEN Panic("try_steal_left: assert needed > 0")
    ELSE IF idx = 0
    THEN [panic |-> FALSE, needed |-> needed, children |-> children, metrics |-> metrics]
    ELSE TryStealLeftLoop(children, metrics, idx, needed, 0)

\* the for loop of try_steal_right, i steals already done
RECURSIVE TryStealRightLoop(_, _, _, _, _)
TryStealRightLoop(children, metrics, idx, needed, i) ==
    IF i >= needed
    THEN [panic |-> FALSE, needed |-> 0, children |-> children, metrics |-> metrics]
    ELSE LET right_idx == idx + 1
             st == StealLeast(At(children, right_idx))
         IN  IF st.panic THEN st
             ELSE IF ~st.some
             THEN [panic |-> FALSE, needed |-> needed - i,
                   children |-> children, metrics |-> metrics]
             ELSE LET under == At(children, idx)
                      mg == MergeNode(under, st.node, st.metric, Len(under.metrics))
                  IN  IF mg.panic THEN mg
                      ELSE IF ~Fits(At(metrics, right_idx), st.metric)
                      THEN Panic("try_steal_right: metrics[right_idx] -= node_metric")
                      ELSE TryStealRightLoop(
                               SeqSet(SeqSet(children, idx, mg.node), right_idx, st.rest),
                               SeqSet(SeqSet(metrics, idx,
                                             MAdd(At(metrics, idx), st.metric)),
                                      right_idx, MSub(At(metrics, right_idx), st.metric)),
                               idx, needed, i + 1)

\* Internal::try_steal_right; returns [panic, needed, children, metrics]
TryStealRight(children, metrics, idx, needed) ==
    IF Len(children) # Len(metrics) THEN Panic("try_steal_right: assert_eq len")
    ELSE IF ~(needed <= MIN) THEN Panic("try_steal_right: assert needed <= MIN")
    ELSE IF ~(needed > 0) THEN Panic("try_steal_right: assert needed > 0")
    ELSE IF idx + 1 >= Len(children)
    THEN [panic |-> FALSE, needed |-> needed, children |-> children, metrics |-> metrics]
    ELSE TryStealRightLoop(children, metrics, idx, needed, 0)

\* the Children::Leaf branch of delete_range; start / end are the bounds as
\* left by get_delete_indices
DeleteRangeLeaf(self, start_idx, end_idx, start, end) ==
    LET end_metric == At(self.metrics, end_idx)
        start_delete == IF start.bytes = 0 THEN start_idx ELSE start_idx + 1
        end_delete == IF end.bytes # end_metric.bytes THEN end_idx ELSE end_idx + 1
        done(ms, cs) == [panic |-> FALSE,
                         needed |-> IF Len(cs) = 0 THEN 1 ELSE 0,
                         node |-> Node(TRUE, ms, cs)]
    IN  IF start_delete < end_delete
        THEN IF ~Fits(end_metric, end)
             THEN Panic("delete_range: metrics[end_idx] -= end")
             ELSE LET m1 == SeqSet(self.metrics, end_idx, MSub(end_metric, end))
                      m2 == SeqSet(m1, start_idx, start)
                  IN  done(SeqDrain(m2, start_delete, end_delete),
                           SeqDrain(self.children, start_delete, end_delete))
        ELSE IF start_idx = end_idx
        THEN IF ~Fits(end, start) THEN Panic("delete_range: end - start")
             ELSE IF ~Fits(end_metric, MSub(end, start))
             THEN Panic("delete_range: metrics[start_idx] -= end - start")
             ELSE done(SeqSet(self.metrics, start_idx,
                              MSub(end_metric, MSub(end, start))),
                       self.children)
        ELSE IF ~Fits(end_metric, end)
        THEN Panic("delete_range: metrics[end_idx] -= end")
        ELSE done(SeqSet(SeqSet(self.metrics, end_idx, MSub(end_metric, end)),
                         start_idx, start),
                  self.children)

\* the tail of the multi-child branch of delete_range: the drain and the
\* match on (left_needed, right_needed)
DeleteRangeFinish(children, metrics, start_idx, end_idx, start_delete, end_delete, left_needed, right_needed) ==
    LET ch == IF start_delete < end_delete
              THEN SeqDrain(children, start_delete, end_delete) ELSE children
        mt == IF start_delete < end_delete
              THEN SeqDrain(metrics, start_delete, end_delete) ELSE metrics
    IN  IF left_needed = 0 /\ right_needed = 0
        THEN [panic |-> FALSE, needed |-> 0, node |-> Node(FALSE, mt, ch)]
        ELSE IF left_needed = 0 THEN Panic("delete_range: todo (None, Some)")
        ELSE IF right_needed = 0 THEN Panic("delete_range: todo (Some, None)")
        ELSE IF end_idx # start_idx + 1
                  + (IF end_delete > start_delete THEN end_delete - start_delete ELSE 0)
        THEN Panic("delete_range: assert_eq end_idx")
        ELSE LET mc == MergeChildren(ch, mt, start_idx + 1)
             IN  IF mc.panic THEN mc
                 ELSE IF start_idx >= Len(mc.children)
                 THEN Panic("delete_range: children[start_idx] out of bounds")
                 ELSE IF NodeLen(At(mc.children, start_idx)) < MIN
                 THEN Panic("delete_range: todo merge again")
                 ELSE [panic |-> FALSE, needed |-> NeededFor(Len(mc.children)),
                       node |-> Node(FALSE, mc.metrics, mc.children)]

\* the single-child branch of delete_range after the recursive call returned
\* c: the summary update, then try_steal_left, try_steal_right, merge_children
DeleteRangeSingle(self, idx, c) ==
    IF c.panic THEN c
    ELSE IF c.needed = 0
    THEN [panic |-> FALSE, needed |-> 0,
          node |-> Node(FALSE, SeqSet(self.metrics, idx, NodeMetrics(c.node)),
                        SeqSet(self.children, idx, c.node))]
    ELSE
    LET l == TryStealLeft(SeqSet(self.children, idx, c.node),
                          SeqSet(self.metrics, idx, NodeMetrics(c.node)),
                          idx, c.needed)
    IN  IF l.panic THEN l
        ELSE IF l.needed = 0
        THEN [panic |-> FALSE, needed |-> 0, node |-> Node(FALSE, l.metrics, l.children)]
        ELSE
        LET r == TryStealRight(l.children, l.metrics, idx, l.needed)
        IN  IF r.panic THEN r
            ELSE IF r.needed = 0
            THEN [panic |-> FALSE, needed |-> 0,
                  node |-> Node(FALSE, r.metrics, r.children)]
            ELSE
            LET mc == MergeChildren(r.children, r.metrics, idx)
            IN  IF mc.panic THEN mc
                ELSE [panic |-> FALSE, needed |-> mc.needed,
                      node |-> Node(FALSE, mc.metrics, mc.children)]

\* an edge child of the multi-child branch after its recursive call returned
\* c: the summary update and needed.and_then(try_steal_left / try_steal_right);
\* returns [panic, needed, children, metrics]
DeleteRangeEdge(children, metrics, idx, c, left) ==
    IF c.panic THEN c
    ELSE IF c.needed = 0
    THEN [panic |-> FALSE, needed |-> 0,
          children |-> SeqSet(children, idx, c.node),
          metrics |-> SeqSet(metrics, idx, NodeMetrics(c.node))]
    ELSE IF left
    THEN TryStealLeft(SeqSet(children, idx, c.node),
                      SeqSet(metrics, idx, NodeMetrics(c.node)), idx, c.needed)
    ELSE TryStealRight(SeqSet(children, idx, c.node),
                       SeqSet(metrics, idx, NodeMetrics(c.node)), idx, c.needed)

\* an edge the multi-child branch does not descend into
EdgeUntouched(children, metrics) ==
    [panic |-> FALSE, needed |-> 0, children |-> children, metrics |-> metrics]

\* start_delete without the boundary rule: the child the range starts in is
\* always taken out whole
StartDeleteWhole(start, start_idx) == start_idx

\* start_delete / end_delete of delete_range
StartDelete(start, start_idx) == IF start.bytes = 0 THEN start_idx ELSE start_idx + 1
EndDelete(end, end_idx, metric_bytes) ==
    IF end.bytes # metric_bytes THEN end_idx ELSE end_idx + 1

\* Internal::delete_range; returns [panic, needed, node (self afterwards)]
RECURSIVE DeleteRange(_, _, _)
RECURSIVE DeleteRangeRight(_, _, _)
RECURSIVE DeleteRangeMulti(_, _)
RECURSIVE DeleteRangeAt(_, _)

\* the multi-child branch from `let mut right_needed` on; lft is the left edge
DeleteRangeRight(self, g, lft) ==
    IF lft.panic THEN lft
    ELSE
    LET end_delete == EndDelete(g.end, g.end_idx, At(self.metrics, g.end_idx).bytes)
        rgt == IF end_delete <= g.end_idx
               THEN DeleteRangeEdge(lft.children, lft.metrics, g.end_idx,
                        DeleteRange(At(lft.children, g.end_idx), MetricDefault, g.end),
                        FALSE)
               ELSE EdgeUntouched(lft.children, lft.metrics)
    IN  IF rgt.panic THEN rgt
        ELSE DeleteRangeFinish(rgt.children, rgt.metrics, g.start_idx, g.end_idx,
                               StartDelete(g.start, g.start_idx), end_delete,
                               lft.needed, rgt.needed)

\* the multi-child branch: delete range is in multiple children
DeleteRangeMulti(self, g) ==
    DeleteRangeRight(self, g,
        IF StartDelete(g.start, g.start_idx) > g.start_idx
        THEN DeleteRangeEdge(self.children, self.metrics, g.start_idx,
                 DeleteRange(At(self.children, g.start_idx), g.start,
                             At(self.metrics, g.start_idx)),
                 TRUE)
        ELSE EdgeUntouched(self.children, self.metrics))

\* delete_range once get_delete_indices returned g
DeleteRangeAt(self, g) ==
    IF g.panic THEN g
    ELSE IF self.leaf
    THEN DeleteRangeLeaf(self, g.start_idx, g.end_idx, g.start, g.end)
    ELSE IF g.start_idx = g.end_idx
    THEN DeleteRangeSingle(self, g.start_idx,
             DeleteRange(At(self.children, g.start_idx), g.start, g.end))
    ELSE DeleteRangeMulti(self, g)

DeleteRange(self, start0, end0) ==
    IF ~AssertInvariants(self) THEN Panic("delete_range: assert_invariants")
    ELSE IF ~(start0.chars <= end0.chars)
    THEN Panic("delete_range: assert start.chars <= end.chars")
    ELSE DeleteRangeAt(self, GetDeleteIndices(self, start0, end0))

\* the public call root.delete_range(start, end): the Option returned is
\* dropped by the caller; returns [panic, root]
DeleteRangeRoot(self, start, end) ==
    LET r == DeleteRange(self, start, end)
    IN  IF r.panic THEN r ELSE [panic |-> FALSE, root |-> r.node]

\* the public calls root.add / root.remove; return [panic, root]
AddRoot(self, char_pos, new) ==
    LET r == Add(self, char_pos, new)
    IN  IF r.panic THEN r ELSE [panic |-> FALSE, root |-> r.node]

RemoveRoot(self, char_pos, update) ==
    LET r == Remove(self, char_pos, update)
    IN  IF r.panic THEN r ELSE [panic |-> FALSE, root |-> r.node]

\* ---- observations of a tree (used by the properties) --------------------
\* the metrics of the leaves in order
RECURSIVE LeafMetrics(_)
RECURSIVE LeafMetricsOf(_, _)
LeafMetricsOf(cs, i) ==
    IF i > Len(cs) THEN <<>> ELSE LeafMetrics(cs[i]) \o LeafMetricsOf(cs, i + 1)

LeafMetrics(n) == IF n.leaf THEN n.metrics ELSE LeafMetricsOf(n.children, 1)

\* the number of Leaf bodies in the tree
RECURSIVE LeafCount(_)
RECURSIVE LeafCountOf(_, _)
LeafCountOf(cs, i) ==
    IF i > Len(cs) THEN 0 ELSE LeafCount(cs[i]) + LeafCountOf(cs, i + 1)

LeafCount(n) == IF n.leaf THEN Len(n.children) ELSE LeafCountOf(n.children, 1)

\* ==== Part II: object handles, the arena and the collector =================
\* (core/object/tagged.rs, arena/store.rs; the bodies, the arena and the
\* collection cycle themselves follow the design document, sections 3.2, 4.2
\* and 4.3)

\* addresses of the bodies of the arena
Addrs == 1..MaxBodies
\* the symbols: interned, outside the arena, never reclaimed; they are
\* numbered from 0 (nil, the first symbol) downwards, apart from the addresses
SymNil == 0
SymFoo == 0 - 1
Symbols == {SymNil, SymFoo}

\* Gc<T>: a tag and a payload (an address, a symbol, or nothing for Int)
Handle(tag, ptr) == [tag |-> tag, ptr |-> ptr]
\* const NIL
NIL == Handle("Symbol", SymNil)
IntObj == Handle("Int", 0)
\* a built-in function: it lives outside the arena
SubrObj == Handle("SubrFn", 0)

\* an object body: its kind, its mark bit, the handles it holds (car and cdr
\* of a cons, the elements of a vector or record, key and value of a hash
\* table entry), its mutable flag
Body(kind, fields, mutable) ==
    [kind |-> kind, marked |-> FALSE, fields |-> fields, mutable |-> mutable]
\* an address that holds no body
Free == [kind |-> "Free", marked |-> FALSE, fields |-> <<>>, mutable |-> FALSE]

\* the handle of the body at address a
HandleOf(ar, a) == Handle(ar[a].kind, a)

\* the handle points into the arena
InArena(o) == o.tag \notin {"Int", "SubrFn", "Symbol"}

\* the handle is an immediate, a symbol, or names a body the arena holds with
\* the tag of that body
Valid(ar, o) == InArena(o) => (o.ptr \in Addrs /\ ar[o.ptr].kind = o.tag)

\* the handles of the bodies the arena holds
Bodies(ar) == {HandleOf(ar, a) : a \in {b \in Addrs : ar[b].kind # "Free"}}

\* the values stored in bodies and function slots: nil and the bodies
Objects(ar) == {NIL} \cup Bodies(ar)

\* the values placed in root slots: an integer, a symbol and the bodies
Rootable(ar) == {IntObj, Handle("Symbol", SymFoo)} \cup Bodies(ar)

\* Object::is_markable with only the SubrFn arm
IsMarkableInts(o) == o.tag # "SubrFn"

\* Object::is_markable
IsMarkable(o) == o.tag \notin {"Int", "SubrFn"}

\* the state a cycle works on: the arena and the mark bits of the symbols
Heap(ar, sm) == [arena |-> ar, symmarks |-> sm]

\* Object::is_marked with the Cons arm answering true as the Int arm does
IsMarkedConses(h, o) ==
    IF o.tag \in {"Int", "SubrFn", "Cons"} THEN TRUE
    ELSE IF o.tag = "Symbol" THEN o.ptr \in h.symmarks
    ELSE h.arena[o.ptr].marked

\* Object::is_marked with the String arm answering true as the Int arm does
IsMarkedStrings(h, o) ==
    IF o.tag \in {"Int", "SubrFn", "String"} THEN TRUE
    ELSE IF o.tag = "Symbol" THEN o.ptr \in h.symmarks
    ELSE h.arena[o.ptr].marked

\* Object::is_marked
IsMarked(h, o) ==
    IF o.tag \in {"Int", "SubrFn"} THEN TRUE
    ELSE IF o.tag = "Symbol" THEN o.ptr \in h.symmarks
    ELSE h.arena[o.ptr].marked

\* x.mark() of a body: the mark bit is set
BodyMark(h, o) ==
    Heap([h.arena EXCEPT ![o.ptr].marked = TRUE], h.symmarks)

\* the handles a body pushes when it is traced (its tracing contract; a
\* symbol holds its function slot): those that are markable
Outgoing(h, fn, o) ==
    SelectSeq(IF o.tag = "Symbol" THEN <<fn[o.ptr]>> ELSE h.arena[o.ptr].fields,
              IsMarkable)

\* x.trace_mark(stack) of a body: the mark bit is set and, if it was not set
\* before, the handles the body holds are pushed on the stack
BodyTraceMark(h, fn, o, stack) ==
    IF IsMarked(h, o) THEN [heap |-> h, stack |-> stack]
    ELSE [heap |-> IF o.tag = "Symbol"
                   THEN Heap(h.arena, h.symmarks \cup {o.ptr})
                   ELSE BodyMark(h, o),
          stack |-> stack \o Outgoing(h, fn, o)]

\* Object::trace_mark with the Cons arm calling x.mark(): the cons is marked
\* and its car and cdr are not traced
TraceMarkConsOnly(h, fn, o, stack) ==
    IF o.tag \in {"Int", "SubrFn"} THEN [heap |-> h, stack |-> stack]
    ELSE IF o.tag \in {"Float", "String", "ByteString", "Cons"}
    THEN [heap |-> BodyMark(h, o), stack |-> stack]
    ELSE BodyTraceMark(h, fn, o, stack)

\* Object::trace_mark
TraceMark(h, fn, o, stack) ==
    IF o.tag \in {"Int", "SubrFn"} THEN [heap |-> h, stack |-> stack]
    ELSE IF o.tag \in {"Float", "String", "ByteString"}
    THEN [heap |-> BodyMark(h, o), stack |-> stack]
    ELSE BodyTraceMark(h, fn, o, stack)

\* the mark phase: handles are popped off the stack and traced until the
\* stack drains
RECURSIVE MarkLoop(_, _, _)
MarkLoop(h, fn, stack) ==
    IF stack = <<>> THEN h
    ELSE LET r == TraceMark(h, fn, stack[Len(stack)], SubSeq(stack, 1, Len(stack) - 1))
         IN  MarkLoop(r.heap, fn, r.stack)

\* the sweep phase: every body that is not marked is freed, the mark bit of
\* every other body is cleared
Sweep(h) ==
    [a \in Addrs |->
        IF h.arena[a].kind = "Free" THEN Free
        ELSE IF IsMarked(h, HandleOf(h.arena, a))
        THEN [h.arena[a] EXCEPT !.marked = FALSE]
        ELSE Free]

\* the markable handles of the root slots
RootStack(sl) == SelectSeq(sl, IsMarkable)

\* a collection cycle: mark from the root slots, then sweep
GarbageCollect(ar, fn, sl) == Sweep(MarkLoop(Heap(ar, {}), fn, RootStack(sl)))

\* Gc<GcStore>::bind: the handle kept in a root slot, bits unchanged
Bind(slot) == slot

\* the nodes (addresses and symbols) reachable from a set of handles
Nodes(os) == {o.ptr : o \in {p \in os : IsMarkable(p)}}

RECURSIVE ReachFrom(_, _, _)
ReachFrom(ar, fn, seen) ==
    LET next == seen \cup UNION {
                    IF n \in Symbols THEN Nodes({fn[n]})
                    ELSE Nodes({ar[n].fields[i] : i \in 1..Len(ar[n].fields)})
                    : n \in seen}
    IN  IF next = seen THEN seen ELSE ReachFrom(ar, fn, next)

\* the nodes reachable from the root slots
Reachable(ar, fn, sl) == ReachFrom(ar, fn, Nodes({sl[i] : i \in 1..Len(sl)}))

\* a safe point: every handle that is live and not in a root slot (here the
\* function slots of the symbols) is an immediate or reachable from the roots
SafePoint(ar, fn, sl) ==
    \A s \in Symbols : InArena(fn[s]) => fn[s].ptr \in Reachable(ar, fn, sl)

\* the lowest address that holds no body
FreshAddr(ar) == CHOOSE a \in Addrs :
    ar[a].kind = "Free" /\ \A b \in Addrs : b < a => ar[b].kind # "Free"

\* cons.set_car(x) / cons.set_cdr(x): the field is written when the mutable
\* flag of the cons is set, and the call fails otherwise
ConsSet(body, i, x) ==
    IF body.mutable
    THEN [ok |-> TRUE, body |-> [body EXCEPT !.fields[i] = x]]
    ELSE [ok |-> FALSE, body |-> body]

\* Data::inner_mut of a vector: the mutable borrow, when the flag is set
InnerMut(body) == [some |-> body.mutable]

\* TryFrom<Object> for &mut Vec<Object> handing out the vector whatever its
\* mutable flag
TryFromMutVecAny(ar, o) ==
    IF o.tag = "Vec" THEN [ok |-> TRUE, err |-> "none"] ELSE [ok |-> FALSE, err |-> "type"]

\* TryFrom<Object> for &mut Vec<Object>
TryFromMutVec(ar, o) ==
    IF o.tag = "Vec"
    THEN IF InnerMut(ar[o.ptr]).some
         THEN [ok |-> TRUE, err |-> "none"]
         ELSE [ok |-> FALSE, err |-> "Object is immutable"]
    ELSE [ok |-> FALSE, err |-> "type"]

\* ---- display -------------------------------------------------------------
\* the integer 1, as in list![1; cx]
IntOne == Handle("Int", 1)

\* the set `seen` of a display call, kept in the order of the first visits
WasSeen(seen, p) == \E i \in 1..Len(seen) : seen[i] = p

\* the back-reference of a cons already visited: #N, N its index in the
\* order of the first visits
BackRef(seen, p) == "#" \o ToString((CHOOSE i \in 1..Len(seen) : seen[i] = p) - 1)

\* what a display call returns: the text written and the conses seen
Shown(out, seen) == [out |-> out, seen |-> seen]

RECURSIVE DisplayWalk(_, _, _)
RECURSIVE ConsDisplayWalk(_, _, _)
RECURSIVE ConsDisplayTail(_, _, _)

\* the elements of a list from the cons o on, o being recorded in seen: the
\* car, then the cdr as the rest of the list, as nothing for nil, or after
\* " . " for anything else and for a cons already visited
ConsDisplayTail(ar, o, seen) ==
    LET car == DisplayWalk(ar, ar[o.ptr].fields[1], seen)
        cdr == ar[o.ptr].fields[2]
    IN  IF cdr = NIL THEN Shown(car.out \o ")", car.seen)
        ELSE IF cdr.tag = "Cons" /\ ~WasSeen(car.seen, cdr.ptr)
        THEN LET t == ConsDisplayTail(ar, cdr, Append(car.seen, cdr.ptr))
             IN  Shown(car.out \o " " \o t.out, t.seen)
        ELSE LET d == DisplayWalk(ar, cdr, car.seen)
             IN  Shown(car.out \o " . " \o d.out \o ")", d.seen)

\* Cons::display_walk: a cons already visited is written as its
\* back-reference, any other is recorded and written as a list
ConsDisplayWalk(ar, o, seen) ==
    IF WasSeen(seen, o.ptr) THEN Shown(BackRef(seen, o.ptr), seen)
    ELSE LET t == ConsDisplayTail(ar, o, Append(seen, o.ptr))
         IN  Shown("(" \o t.out, t.seen)

\* ObjectType::display_walk with the Int arm written as the Float arm writes
\* a whole number
DisplayWalkIntAsFloat(ar, o, seen) ==
    IF o.tag = "Int" THEN Shown(ToString(o.ptr) \o ".0", seen)
    ELSE IF o.tag = "Symbol"
    THEN Shown(IF o.ptr = SymNil THEN "nil" ELSE "foo", seen)
    ELSE ConsDisplayWalk(ar, o, seen)

\* ObjectType::display_walk, its Int, Symbol and Cons arms
DisplayWalk(ar, o, seen) ==
    IF o.tag = "Int" THEN Shown(ToString(o.ptr), seen)
    ELSE IF o.tag = "Symbol"
    THEN Shown(IF o.ptr = SymNil THEN "nil" ELSE "foo", seen)
    ELSE ConsDisplayWalk(ar, o, seen)

\* impl Display for ObjectType: display_walk with an empty set
Display(ar, o) == DisplayWalk(ar, o, <<>>).out

\* ---- equality ------------------------------------------------------------
RECURSIVE EqWalk(_, _, _, _)
RECURSIVE ConsEqWalk(_, _, _, _)

\* what a walk over two structures returns: the answer and the pairs of
\* conses visited
Compared(eq, seen) == [eq |-> eq, seen |-> seen]

\* the walk of an equality call over two conses: the pair is recorded in the
\* set of the call; a pair met again is taken as equal; otherwise cars, then
\* cdrs, are compared
ConsEqWalk(ar, a, b, seen) ==
    IF <<a.ptr, b.ptr>> \in seen THEN Compared(TRUE, seen)
    ELSE LET car == EqWalk(ar, ar[a.ptr].fields[1], ar[b.ptr].fields[1],
                           seen \cup {<<a.ptr, b.ptr>>})
         IN  IF ~car.eq THEN car
             ELSE EqWalk(ar, ar[a.ptr].fields[2], ar[b.ptr].fields[2], car.seen)

\* the walk over two handles: the same pointer, or the same variant with
\* equal contents
EqWalk(ar, a, b, seen) ==
    IF a = b THEN Compared(TRUE, seen)
    ELSE IF a.tag # b.tag THEN Compared(FALSE, seen)
    ELSE IF a.tag = "Cons" THEN ConsEqWalk(ar, a, b, seen)
    ELSE Compared(a.ptr = b.ptr, seen)

\* PartialEq for Cons: a walk with an empty set
ConsEq(ar, a, b) == ConsEqWalk(ar, a, b, {}).eq

\* the derived PartialEq of ObjectType, its Int, Symbol and Cons variants:
\* the same variant and equal contents
UntagEq(ar, a, b) ==
    /\ a.tag = b.tag
    /\ IF a.tag = "Cons" THEN ConsEq(ar, a, b) ELSE a.ptr = b.ptr

\* PartialEq for Gc<T> with && in place of ||
GcEqBoth(ar, a, b) == a = b /\ UntagEq(ar, a, b)

\* PartialEq for Gc<T>: self.ptr == other.ptr || self.untag() == other.untag()
GcEq(ar, a, b) == a = b \/ UntagEq(ar, a, b)

\* equal(obj1, obj2)
Equal(ar, a, b) == GcEq(ar, a, b)

\* ==== Part III: the tagged handle encoding (core/object/tagged.rs) ========
\* A handle is one machine word: the tag in the low byte, the payload in the
\* bits above it.  The word is WordBits wide in the model; i64, u64 and usize
\* have WordBits bits, i32 and u32 half of them, u16 a quarter.

\* the low byte holds the tag: (x << 8) | tag
TagBits == 8

Word == 2 ^ WordBits

\* enum Tag
Tag == [Symbol |-> 0, Int |-> 1, Float |-> 2, Cons |-> 3, String |-> 4,
        ByteString |-> 5, Vec |-> 6, Record |-> 7, HashTable |-> 8,
        SubrFn |-> 9, ByteFn |-> 10, Buffer |-> 11]

TagNames == DOMAIN Tag

\* the name of a tag value
TagName(t) == CHOOSE n \in TagNames : Tag[n] = t

\* x as usize / x as u64: the value modulo the word
Wrap(x) == x % Word

\* x as i64 / x as isize: the word read as a signed number
Signed(u) == IF Wrap(u) >= Word \div 2 THEN Wrap(u) - Word ELSE Wrap(u)

\* i64::MAX, i64::MIN
I64Max == (Word \div 2) - 1
I64Min == 0 - (Word \div 2)

\* const MAX_FIXNUM / const MIN_FIXNUM
MAX_FIXNUM == I64Max \div (2 ^ TagBits)
MIN_FIXNUM == I64Min \div (2 ^ TagBits)

\* Gc::from_ptr without the shift: the tag is added to the address itself
FromPtrUnshifted(ptr, tag) == Wrap(Wrap(ptr) + tag)

\* Gc::from_ptr: (x << 8) | tag; the bits shifted out at the top are lost
FromPtr(ptr, tag) == (Wrap(ptr) % (2 ^ (WordBits - TagBits))) * (2 ^ TagBits) + tag

\* Gc::get_tag
GetTag(bits) == bits % (2 ^ TagBits)

\* Gc::untag_ptr with a logical shift: the payload is not sign-extended
UntagPtrLogical(bits) == [ptr |-> bits \div (2 ^ TagBits), tag |-> GetTag(bits)]

\* Gc::untag_ptr: ((x as isize) >> 8) as usize, and the tag
UntagPtr(bits) ==
    [ptr |-> Wrap(Signed(bits) \div (2 ^ TagBits)), tag |-> GetTag(bits)]

\* i64::get_ptr without the clamp
I64GetPtrWrap(v) == Wrap(v)

\* i64::get_ptr: the value clamped to the fixnum range, as an address
I64GetPtr(v) ==
    Wrap(IF v < MIN_FIXNUM THEN MIN_FIXNUM ELSE IF v > MAX_FIXNUM THEN MAX_FIXNUM ELSE v)

\* i64::from_obj_ptr
I64FromObjPtr(ptr) == Signed(ptr)

\* TaggedPtr::tag for i64 (the default: tag_ptr(get_ptr()))
TagI64(v) == FromPtr(I64GetPtr(v), Tag.Int)

\* TaggedPtr::untag for i64 (the default: from_obj_ptr(untag_ptr().0))
UntagI64(bits) == I64FromObjPtr(UntagPtr(bits).ptr)

\* the integer types converted to handles, and the values of each
IntTypes == {"i64", "i32", "u32", "u16", "u64", "usize", "from_usize"}

TypeMin(type) ==
    IF type = "i64" THEN I64Min
    ELSE IF type = "i32" THEN 0 - (2 ^ ((WordBits \div 2) - 1))
    ELSE 0

TypeMax(type) ==
    IF type = "i64" THEN I64Max
    ELSE IF type = "i32" THEN (2 ^ ((WordBits \div 2) - 1)) - 1
    ELSE IF type = "u32" THEN (2 ^ (WordBits \div 2)) - 1
    ELSE IF type = "u16" THEN (2 ^ (WordBits \div 4)) - 1
    ELSE Word - 1

\* TagType::tag for i64, i32, u32, u16 (i64::from(self)), for u64 and usize
\* (self as i64), and From<usize> for Object (i64::tag_ptr of the value)
TagInteger(type, x) ==
    IF type = "from_usize" THEN FromPtr(x, Tag.Int)
    ELSE IF type \in {"u64", "usize"} THEN TagI64(Signed(x))
    ELSE TagI64(x)

\* ObjectType / ListType / FunctionType / NumberType: a variant and its value
Variant(name, val) == [variant |-> name, val |-> val]

\* TaggedPtr::untag of the sum types; a tag outside the view is unreachable!()
Untag(view, bits) ==
    LET p == UntagPtr(bits)
        name == TagName(p.tag)
        val == IF name = "Int" THEN I64FromObjPtr(p.ptr) ELSE p.ptr
    IN  IF view = "List"
        THEN IF name = "Symbol" THEN Variant("Nil", 0)
             ELSE IF name = "Cons" THEN Variant("Cons", val)
             ELSE Variant("unreachable", 0)
        ELSE IF view = "Function" /\ name \notin {"Cons", "SubrFn", "ByteFn", "Symbol"}
        THEN Variant("unreachable", 0)
        ELSE IF view = "Number" /\ name \notin {"Int", "Float"}
        THEN Variant("unreachable", 0)
        ELSE Variant(name, val)

\* TaggedPtr::tag of the sum types: the tag of the variant's base type
TagVariant(view, v) ==
    IF v.variant = "Nil" THEN FromPtr(0, Tag.Symbol)
    ELSE IF v.variant = "Int" THEN TagI64(v.val)
    ELSE FromPtr(v.val, Tag[v.variant])

\* const NIL: the all-zero word
NilBits == 0

\* Gc::ptr_eq
PtrEq(a, b) == a = b

\* Object::is_nil answering true for every symbol, as the List view untags
IsNilAnySymbol(bits) == Untag("Object", bits).variant = "Symbol"

\* Object::is_nil: self == sym::NIL, the symbol at offset 0
IsNil(bits) ==
    LET v == Untag("Object", bits)
    IN  v.variant = "Symbol" /\ v.val = 0

\* TypeError::new(expected, value)
TypeError(expected, bits) == [ok |-> FALSE, expected |-> expected, value |-> bits]

\* Ok(cast_gc(value))
Ok(bits) == [ok |-> TRUE, expected |-> "none", value |-> bits]

\* TryFrom<Object> for List with the match on the tag alone
TryFromAnySymbol(view, bits) ==
    LET name == TagName(GetTag(bits))
    IN  IF view = "Number"
        THEN IF name \in {"Int", "Float"} THEN Ok(bits) ELSE TypeError("Number", bits)
        ELSE IF view = "List"
        THEN IF name \in {"Symbol", "Cons"} THEN Ok(bits) ELSE TypeError("List", bits)
        ELSE IF name \in {"ByteFn", "SubrFn", "Cons", "Symbol"}
             THEN Ok(bits) ELSE TypeError("Func", bits)

\* TryFrom<Object> for Number / List / Function
TryFrom(view, bits) ==
    LET name == TagName(GetTag(bits))
    IN  IF view = "Number"
        THEN IF name \in {"Int", "Float"} THEN Ok(bits) ELSE TypeError("Number", bits)
        ELSE IF view = "List"
        THEN IF Untag("Object", bits) = Variant("Symbol", 0) \/ name = "Cons"
             THEN Ok(bits) ELSE TypeError("List", bits)
        ELSE IF name \in {"ByteFn", "SubrFn", "Cons", "Symbol"}
             THEN Ok(bits) ELSE TypeError("Func", bits)

\* ---- the state machine --------------------------------------------------
\* ---- the tree with parent pointers (main.rs) ------------------------------
\* A Box<Internal> is a record [addr, leaf, metrics, children, parent]: addr
\* is the address of the box, which stays the same while the box is moved,
\* parent an Option<NonNull<Internal>>. A Box<Leaf> is a record [parent].
\* Functions that allocate take the next free address and return the one
\* after the boxes they made.
PSome(ptr) == [some |-> TRUE, ptr |-> ptr]

PNode(addr, isLeaf, ms, cs, parent) ==
    [addr |-> addr, leaf |-> isLeaf, metrics |-> ms, children |-> cs, parent |-> parent]

\* Leaf::new(parent) / Leaf::default()
PLeaf(parent) == [parent |-> parent]

\* Node::set_parent
SetParent(children, ptr) ==
    [i \in 1..Len(children) |-> [children[i] EXCEPT !.parent = PSome(ptr)]]

\* the drained children, each through clear_parent
ClearParent(children) ==
    [i \in 1..Len(children) |-> [children[i] EXCEPT !.parent = None]]

\* Node::assert_parent: TRUE when no assertion fails
AssertParent(children, ptr) ==
    \A i \in 1..Len(children) : children[i].parent = PSome(ptr)

\* Internal::assert_invariants of main.rs: TRUE when no assertion fails
PAssertInvariants(n) ==
    /\ n.leaf \/ NodeMetrics(n) = MSum([i \in 1..Len(n.children) |->
                                           NodeMetrics(n.children[i])])
    /\ AssertParent(n.children, n.addr)

\* Box::new(right) and boxed.children.set_parent(child_parent)
BoxRight(addr, isLeaf, ms, cs) == PNode(addr, isLeaf, ms, SetParent(cs, addr), None)

\* Internal::insert_internal of main.rs; returns [panic, metrics, children,
\* new, next]
PInsertInternal(children, metrics, idx, new_child, next) ==
    LET len == Len(children)
        m0 == SeqSet(metrics, idx, NodeMetrics(At(children, idx)))
        i1 == idx + 1
        middle == MAX \div 2
    IN  IF len < MAX
        THEN [panic |-> FALSE,
              metrics |-> SeqInsert(m0, i1, NodeMetrics(new_child)),
              children |-> SeqInsert(children, i1, new_child),
              new |-> None, next |-> next]
        ELSE IF len # MAX THEN Panic("insert_internal: assert_eq len MAX")
        ELSE LET lm == SubSeq(m0, 1, middle)
                 lc == SubSeq(children, 1, middle)
                 rm == SubSeq(m0, middle + 1, Len(m0))
                 rc == ClearParent(SubSeq(children, middle + 1, len))
             IN  IF i1 < middle
                 THEN [panic |-> FALSE,
                       metrics |-> SeqInsert(lm, i1, NodeMetrics(new_child)),
                       children |-> SeqInsert(lc, i1, new_child),
                       new |-> Some(BoxRight(next, FALSE, rm, rc)),
                       next |-> next + 1]
                 ELSE [panic |-> FALSE,
                       metrics |-> lm,
                       children |-> lc,
                       new |-> Some(BoxRight(next, FALSE,
                                  SeqInsert(rm, i1 - middle, NodeMetrics(new_child)),
                                  SeqInsert(rc, i1 - middle, new_child))),
                       next |-> next + 1]

\* Internal::insert_leaf of main.rs
PInsertLeaf(children, metrics, self_ptr, idx, needle, next) ==
    LET len == Len(children)
        i1 == idx + 1
        middle == MAX \div 2
    IN  IF ~Fits(At(metrics, idx), needle)
        THEN Panic("insert_leaf: metrics[idx] - needle")
        ELSE
        LET new_metric == MSub(At(metrics, idx), needle)
            m0 == SeqSet(metrics, idx, needle)
        IN  IF len < MAX
            THEN [panic |-> FALSE,
                  metrics |-> SeqInsert(m0, i1, new_metric),
                  children |-> SeqInsert(children, i1, PLeaf(PSome(self_ptr))),
                  new |-> None, next |-> next]
            ELSE IF len # MAX THEN Panic("insert_leaf: assert_eq len MAX")
            ELSE LET lm == SubSeq(m0, 1, middle)
                     lc == SubSeq(children, 1, middle)
                     rm == SubSeq(m0, middle + 1, Len(m0))
                     rc == ClearParent(SubSeq(children, middle + 1, len))
                 IN  IF i1 < middle
                     THEN [panic |-> FALSE,
                           metrics |-> SeqInsert(lm, i1, new_metric),
                           children |-> SeqInsert(lc, i1, PLeaf(PSome(self_ptr))),
                           new |-> Some(BoxRight(next, TRUE, rm, rc)),
                           next |-> next + 1]
                     ELSE [panic |-> FALSE,
                           metrics |-> lm,
                           children |-> lc,
                           new |-> Some(BoxRight(next, TRUE,
                                      SeqInsert(rm, i1 - middle, new_metric),
                                      SeqInsert(rc, i1 - middle, PLeaf(None)))),
                           next |-> next + 1]

\* Internal::push_leaf of main.rs
PPushLeaf(children, metrics, self_ptr, m, next) ==
    LET len == Len(children)
    IN  IF len < MAX
        THEN [panic |-> FALSE,
              metrics |-> Append(metrics, m),
              children |-> Append(children, PLeaf(PSome(self_ptr))),
              new |-> None, next |-> next]
        ELSE IF len # MAX THEN Panic("push_leaf: assert_eq len MAX")
        ELSE [panic |-> FALSE,
              metrics |-> metrics,
              children |-> children,
              new |-> Some(BoxRight(next, TRUE, <<m>>, <<PLeaf(None)>>)),
              next |-> next + 1]

\* insert_impl leaving the parent pointer of the new node as it was made
AdoptNot(new, self) == new

\* insert_impl: `new.parent = self.parent` when a new node is returned
Adopt(new, self) ==
    IF new.some THEN Some([new.node EXCEPT !.parent = self.parent]) ELSE new

\* Internal::insert_impl of main.rs; returns [panic, node (self afterwards),
\* new, next]
RECURSIVE PInsertImpl(_, _, _)
PInsertImpl(self, needle0, next) ==
    IF ~PAssertInvariants(self) THEN Panic("insert_impl: assert_invariants")
    ELSE IF Len(self.metrics) = 0 THEN Panic("insert_impl: metrics.len() - 1")
    ELSE
    LET s == InsertScan(self.metrics, 0, needle0)
    IN  IF s.panic THEN s
        ELSE
        LET idx == s.idx
            needle == s.needle
            mt == At(self.metrics, idx)
            in_range == needle.chars < mt.chars
        IN  IF self.leaf
            THEN LET r == IF in_range
                          THEN PInsertLeaf(self.children, self.metrics, self.addr,
                                           idx, needle, next)
                          ELSE IF ~Fits(needle, mt)
                               THEN Panic("insert_impl: needle -= metric (push)")
                               ELSE PPushLeaf(self.children, self.metrics, self.addr,
                                              MSub(needle, mt), next)
                 IN  IF r.panic THEN r
                     ELSE [panic |-> FALSE,
                           node |-> [self EXCEPT !.metrics = r.metrics,
                                                 !.children = r.children],
                           new |-> Adopt(r.new, self),
                           next |-> r.next]
            ELSE LET c == PInsertImpl(At(self.children, idx), needle, next)
                 IN  IF c.panic THEN c
                     ELSE
                     LET children == SeqSet(self.children, idx, c.node)
                     IN  IF c.new.some
                         THEN LET r == PInsertInternal(children, self.metrics, idx,
                                                       c.new.node, c.next)
                              IN  IF r.panic THEN r
                                  ELSE [panic |-> FALSE,
                                        node |-> [self EXCEPT !.metrics = r.metrics,
                                                              !.children = r.children],
                                        new |-> Adopt(r.new, self),
                                        next |-> r.next]
                         ELSE [panic |-> FALSE,
                               node |-> [self EXCEPT
                                   !.metrics = IF in_range THEN self.metrics
                                       ELSE SeqSet(self.metrics, idx,
                                                   NodeMetrics(children[Len(children)])),
                                   !.children = children],
                               new |-> None,
                               next |-> c.next]

\* Internal::insert of main.rs on the caller's box; returns [panic, root, next]
PInsertRoot(self, needle, next) ==
    LET r == PInsertImpl(self, needle, next)
    IN  IF r.panic THEN r
        ELSE IF ~r.new.some THEN [panic |-> FALSE, root |-> r.node, next |-> r.next]
        ELSE [panic |-> FALSE,
              root |-> PNode(r.next, FALSE,
                             <<NodeMetrics(r.node), NodeMetrics(r.new.node)>>,
                             SetParent(<<r.node, r.new.node>>, r.next), None),
              next |-> r.next + 1]

\* new_root of main.rs: the box at the first address
PNewRoot == PNode(1, TRUE, <<MetricDefault>>, <<PLeaf(PSome(1))>>, None)

\* ---- the Environment's property lists (data.rs) --------------------------
\* A property list entry is <<propname, rooted>>; rooted = GcRoot::new(value)
\* holds the handle it was made from and rooted.get(arena) gives it back.

\* Environment::default: props is an empty map from symbols to
\* Vec<(Symbol, GcRoot)>
NoProps == <<>>

\* plist.iter().find(|x| x.0 == propname): the first index whose name is
\* propname, 0 for None
FindProp(plist, propname) ==
    LET hit == {i \in 1..Len(plist) : plist[i][1] = propname}
    IN  IF hit = {} THEN 0 ELSE CHOOSE i \in hit : \A j \in hit : i <= j

\* put that pushes the pair without looking for the property name first
PutPush(props, symbol, propname, value) ==
    IF symbol \in DOMAIN props
    THEN [props EXCEPT ![symbol] = Append(@, <<propname, value>>)]
    ELSE (symbol :> <<<<propname, value>>>>) @@ props

\* put: env.props afterwards (the value itself is returned)
Put(props, symbol, propname, value) ==
    IF symbol \in DOMAIN props
    THEN LET i == FindProp(props[symbol], propname)
         IN  IF i # 0
             THEN [props EXCEPT ![symbol][i] = <<propname, value>>]
             ELSE [props EXCEPT ![symbol] = Append(@, <<propname, value>>)]
    ELSE (symbol :> <<<<propname, value>>>>) @@ props

\* get
Get(props, symbol, propname) ==
    IF symbol \in DOMAIN props
    THEN LET i == FindProp(props[symbol], propname)
         IN  IF i # 0 THEN props[symbol][i][2] ELSE NIL
    ELSE NIL

VARIABLES
    root,      \* the tree the caller holds (Box<Internal>)
    prev,      \* the tree before the last call
    op,        \* the last call: its name, its arguments, what it returned
    panicked,  \* the last call panicked; the run is over
    arena,     \* the bodies the arena owns, by address
    funcs,     \* the function slot of every symbol
    slots,     \* the root set: a stack of slots
    gcop,      \* the last call on the arena or the root set
    obj,       \* the handle the last conversion produced or was given
    conv,      \* the last conversion: its name, its input, its result
    mark,      \* the collection cycle in progress: its phase and work stack
    ptree,     \* the tree with parent pointers (main.rs) and its allocator
    env        \* the Environment's property lists and the puts made so far

treeVars == <<root, prev, op, panicked>>
gcVars == <<arena, funcs, slots, gcop>>
tagVars == <<obj, conv>>
markVars == <<mark>>
parentVars == <<ptree>>
envVars == <<env>>
vars == <<treeVars, gcVars, tagVars, markVars, parentVars, envVars>>

\* no conversion made yet: the handle is nil
InitTag ==
    /\ obj = FromPtr(0, Tag.Symbol)
    /\ conv = [name |-> "none"]

\* Arena::new: no body yet, no function set, no root slot
EmptyArena == [a \in Addrs |-> Free]

InitGc ==
    /\ arena = EmptyArena
    /\ funcs = [s \in Symbols |-> NIL]
    /\ slots = <<>>
    /\ gcop = [name |-> "new"]

\* new_root
InitTree ==
    /\ root = NewRoot
    /\ prev = NewRoot
    /\ op = [name |-> "new_root"]
    /\ panicked = FALSE

\* the metrics the callers pass: metric(x)
Positions == 0..MaxPos
DeepPositions == 0..MaxDeepPos
RangePositions == 0..MaxRangePos
\* the deltas passed to add and remove
Deltas == {metric(1)}

\* no cycle is running
NoCycle == [phase |-> "idle", symmarks |-> {}, stack |-> <<>>, traced |-> <<>>]

InitMark == mark = NoCycle

\* new_root of main.rs; the next box goes to the second address
InitParent == ptree = [root |-> PNewRoot, next |-> 2, panicked |-> FALSE]

\* the values put: nil and two integers
PutValues == {NIL, IntObj, IntOne}

\* Environment::default; puts is the history: for every symbol and property,
\* the value of the most recent put, nil when there was none
InitEnv ==
    env = [props |-> NoProps, before |-> NoProps, call |-> [name |-> "default"],
           puts |-> [k \in Symbols \X Symbols |-> NIL]]

Init == InitTree /\ InitGc /\ InitTag /\ InitMark /\ InitParent /\ InitEnv

\* a call can follow: the run is over once a call panicked, and the runs
\* explored end with the search they make (a search leaves the tree as it is,
\* so what can follow it is what could be called in its place)
Live == ~panicked /\ op.name # "search"

\* the effect of a mutating call that returned r
Mutate(r, call) ==
    /\ prev' = root
    /\ op' = call
    /\ panicked' = r.panic
    /\ root' = IF r.panic THEN root ELSE r.root
    /\ UNCHANGED <<gcVars, tagVars, markVars, parentVars, envVars>>

\* root.insert(metric(x)) with x in P, offered on trees of fewer than bound
\* leaves
InsertUpTo(bound, P) ==
    /\ Live
    /\ LeafCount(root) < bound
    /\ \E x \in P :
           Mutate(InsertRoot(root, metric(x)), [name |-> "insert", m |-> metric(x)])

Insert == InsertUpTo(MaxLeaves, Positions)

\* root.delete(metric(x)) with x in P
DeleteAt(P) ==
    /\ Live
    /\ \E x \in P :
           Mutate(DeleteRoot(root, metric(x)), [name |-> "delete", pos |-> metric(x)])

Delete == DeleteAt(Positions)

\* root.delete_range(metric(x), metric(y)) with x, y in P
DeleteRangeIn(P) ==
    /\ Live
    /\ \E x \in P, y \in P :
           Mutate(DeleteRangeRoot(root, metric(x), metric(y)),
                  [name |-> "delete_range", start |-> metric(x), end |-> metric(y)])

DeleteRangeCall == DeleteRangeIn(Positions)

\* root.add(x, d)
AddCall ==
    /\ Live
    /\ \E x \in 0..MaxTotal, d \in Deltas :
           /\ NodeMetrics(root).chars + d.chars <= MaxTotal
           /\ Mutate(AddRoot(root, x, d), [name |-> "add", char_pos |-> x, delta |-> d])

\* root.remove(x, d)
RemoveCall ==
    /\ Live
    /\ \E x \in 0..MaxTotal, d \in Deltas :
           Mutate(RemoveRoot(root, x, d), [name |-> "remove", char_pos |-> x, delta |-> d])

\* root.search_byte(k) / root.search_char(k): the tree stays as it is and the
\* result is kept in op
Search ==
    /\ Live
    /\ \E type \in {BYTE, CHAR} :
       \E k \in 0..(IF type = BYTE THEN 2 * MaxTotal ELSE MaxTotal) :
           LET r == SearchImpl(root, type, k)
           IN  /\ prev' = root
               /\ root' = root
               /\ panicked' = r.panic
               /\ op' = [name |-> "search", type |-> type, needle |-> k,
                         result |-> IF r.panic THEN MetricDefault ELSE r.metric]
               /\ UNCHANGED <<gcVars, tagVars, markVars, parentVars, envVars>>

\* Spec: the six operations in any order, on trees of at most MaxLeaves leaves
Next == Insert \/ Delete \/ DeleteRangeCall \/ AddCall \/ RemoveCall \/ Search

Spec == Init /\ [][Next]_vars

\* SpecDeep: the shape of the tests: a run of inserts builds a tree of up to
\* MaxDeepLeaves leaves (three levels), then deletes and delete_ranges follow
Build ==
    /\ op.name \in {"new_root", "insert"}
    /\ InsertUpTo(MaxDeepLeaves, DeepPositions)

DeleteDeep == DeleteAt(DeepPositions)

DeleteRangeDeep == DeleteRangeIn(DeepPositions)

NextDeep == Build \/ DeleteDeep \/ DeleteRangeDeep \/ Search

SpecDeep == Init /\ [][NextDeep]_vars

\* SpecRange: inserts and delete_ranges in any order on trees of up to
\* MaxRangeLeaves leaves, so that inserts grow the trees delete_range left
InsertRange == InsertUpTo(MaxRangeLeaves, RangePositions)

DeleteRangeRange == DeleteRangeIn(RangePositions)

NextRange == InsertRange \/ DeleteRangeRange

SpecRange == Init /\ [][NextRange]_vars

\* SpecEdit: inserts and deletes in any order on trees of up to MaxEditLeaves
\* leaves (three levels); a delete is made at a position inside the sequence
\* of a tree that has at least two leaves
EditPositions == 0..MaxEditPos

InsertEdit == InsertUpTo(MaxEditLeaves, EditPositions)

DeleteEdit ==
    /\ Live
    /\ LeafCount(root) >= 2
    /\ \E x \in EditPositions :
           /\ x < NodeMetrics(root).chars
           /\ Mutate(DeleteRoot(root, metric(x)), [name |-> "delete", pos |-> metric(x)])

NextEdit == InsertEdit \/ DeleteEdit

SpecEdit == Init /\ [][NextEdit]_vars

\* root.insert(metric(x)) on the tree with parent pointers
PInsertCall ==
    /\ ~ptree.panicked
    /\ LeafCount(ptree.root) < MaxParentLeaves
    /\ \E x \in 0..MaxParentPos :
           LET r == PInsertRoot(ptree.root, metric(x), ptree.next)
           IN  ptree' = IF r.panic THEN [ptree EXCEPT !.panicked = TRUE]
                        ELSE [root |-> r.root, next |-> r.next, panicked |-> FALSE]
    /\ UNCHANGED <<treeVars, gcVars, tagVars, markVars, envVars>>

\* SpecParent: inserts on the tree of main.rs, up to MaxParentLeaves leaves
\* (three levels)
NextParent == PInsertCall

SpecParent == Init /\ [][NextParent]_vars

\* put(symbol, propname, value, env)
PutCall == \E symbol \in Symbols, propname \in Symbols, value \in PutValues :
    /\ env' = [props |-> Put(env.props, symbol, propname, value),
               before |-> env.props,
               call |-> [name |-> "put", symbol |-> symbol, propname |-> propname,
                         value |-> value],
               puts |-> [env.puts EXCEPT ![<<symbol, propname>>] = value]]
    /\ UNCHANGED <<treeVars, gcVars, tagVars, markVars, parentVars>>

\* SpecEnv: puts on two symbols, two property names and three values
NextEnv == PutCall

SpecEnv == Init /\ [][NextEnv]_vars

\* ---- the arena, the root set and the collector ---------------------------
\* the call is recorded; the tree is not involved
Logged(entry) == gcop' = entry /\ UNCHANGED <<treeVars, tagVars, parentVars, envVars>>

\* a call made while no cycle is running
Called(entry) == Logged(entry) /\ UNCHANGED markVars

HasRoom == \E a \in Addrs : arena[a].kind = "Free"

\* the allocator places a body at a fresh address
Alloc(body) ==
    /\ HasRoom
    /\ arena' = [arena EXCEPT ![FreshAddr(arena)] = body]
    /\ Called([name |-> "call"])
    /\ UNCHANGED <<funcs, slots>>

\* arena.add(string) / arena.add(float)
AllocAtom == \E kind \in {"String", "Float"} : Alloc(Body(kind, <<>>, FALSE))

\* Cons::new(car, cdr).into_obj(arena), in a const context for const = TRUE
AllocConsIn(C) == \E const \in C, car \in Objects(arena), cdr \in Objects(arena) :
    Alloc(Body("Cons", <<car, cdr>>, ~const))

AllocCons == AllocConsIn({FALSE})

\* a vector or a record of one element is allocated
AllocVecIn(C, K) == \E const \in C, kind \in K, x \in Objects(arena) :
    Alloc(Body(kind, <<x>>, ~const))

AllocVec == AllocVecIn({FALSE}, {"Vec", "Record"})

\* a hash table of one entry is allocated
AllocHashTable == \E k \in Objects(arena), v \in Objects(arena) :
    Alloc(Body("HashTable", <<k, v>>, TRUE))

\* cons.set_car(x) on a cons of the arena
SetCar == \E a \in Addrs, x \in Objects(arena) :
    /\ arena[a].kind = "Cons"
    /\ arena' = [arena EXCEPT ![a] = ConsSet(arena[a], 1, x).body]
    /\ Called([name |-> "call"])
    /\ UNCHANGED <<funcs, slots>>

\* fset(symbol, definition)
Fset == \E x \in Objects(arena) :
    /\ funcs' = [funcs EXCEPT ![SymFoo] = x]
    /\ Called([name |-> "call"])
    /\ UNCHANGED <<arena, slots>>

\* a value is placed in a new root slot
Root == \E x \in Rootable(arena) :
    /\ Len(slots) < MaxSlots
    /\ slots' = Append(slots, x)
    /\ Called([name |-> "call"])
    /\ UNCHANGED <<arena, funcs>>

\* the newest root slot is dropped
Unroot ==
    /\ slots # <<>>
    /\ slots' = SubSeq(slots, 1, Len(slots) - 1)
    /\ Called([name |-> "call"])
    /\ UNCHANGED <<arena, funcs>>

\* arena.garbage_collect(), at a safe point; the kinds of the bodies it freed
\* are recorded
Collect ==
    /\ SafePoint(arena, funcs, slots)
    /\ arena' = GarbageCollect(arena, funcs, slots)
    /\ Called([name |-> "collect",
               freed |-> {arena[a].kind : a \in {b \in Addrs :
                              arena[b].kind # "Free" /\ arena'[b].kind = "Free"}}])
    /\ UNCHANGED <<funcs, slots>>

\* SpecGc: allocations, mutations, root slots and collection cycles in any
\* order, in an arena of at most MaxBodies bodies
NextGc ==
    AllocAtom \/ AllocCons \/ AllocVec \/ AllocHashTable \/ SetCar \/ Fset
        \/ Root \/ Unroot \/ Collect

SpecGc == Init /\ [][NextGc]_vars

\* ---- const contexts -------------------------------------------------------
\* conses and vectors are allocated in a const context or in a mutable one
AllocConsAny == AllocConsIn(BOOLEAN)

AllocVecAny == AllocVecIn(BOOLEAN, {"Vec"})

\* cons.set_car(x) / cons.set_cdr(x) on a cons of the arena; the result is
\* recorded
ConsSetCall == \E a \in Addrs, i \in {1, 2}, x \in Objects(arena) :
    /\ arena[a].kind = "Cons"
    /\ LET r == ConsSet(arena[a], i, x)
       IN  /\ arena' = [arena EXCEPT ![a] = r.body]
           /\ Called([name |-> IF i = 1 THEN "set_car" ELSE "set_cdr",
                      ok |-> r.ok, target |-> a])
    /\ UNCHANGED <<funcs, slots>>

\* <&mut Vec<Object>>::try_from(obj) on a body of the arena, and a write of
\* the first element through the borrow when it is handed out
BorrowMutCall == \E o \in Bodies(arena), x \in Objects(arena) :
    LET r == TryFromMutVec(arena, o)
    IN  /\ arena' = IF r.ok THEN [arena EXCEPT ![o.ptr].fields[1] = x] ELSE arena
        /\ Called([name |-> "borrow_mut", ok |-> r.ok, target |-> o.ptr])
        /\ UNCHANGED <<funcs, slots>>

\* ---- the collection cycle, one handle at a time --------------------------
Idle == mark.phase = "idle"

\* Cons::new(car, cdr).into_obj(arena) with an integer, a built-in function,
\* nil or a body as car
AllocConsMark ==
    /\ Idle
    /\ Cardinality(Bodies(arena)) < MaxMarkBodies
    /\ \E car \in {IntObj, SubrObj} \cup Objects(arena), cdr \in Objects(arena) :
           Alloc(Body("Cons", <<car, cdr>>, TRUE))

\* cons.set_car(x) / cons.set_cdr(x): the calls that close cycles
ConsSetMark ==
    /\ Idle
    /\ \E a \in Addrs, i \in {1, 2}, x \in Objects(arena) :
           /\ arena[a].kind = "Cons"
           /\ arena' = [arena EXCEPT ![a] = ConsSet(arena[a], i, x).body]
           /\ Called([name |-> "call"])
           /\ UNCHANGED <<funcs, slots>>

FsetMark == Idle /\ Fset

RootMark == Idle /\ Root

UnrootMark == Idle /\ Unroot

\* garbage_collect starts, at a safe point: the markable roots are the work
\* stack
StartMark ==
    /\ Idle
    /\ SafePoint(arena, funcs, slots)
    /\ mark' = [phase |-> "mark", symmarks |-> {}, stack |-> RootStack(slots),
                traced |-> <<>>]
    /\ UNCHANGED <<treeVars, gcVars, tagVars, parentVars, envVars>>

\* one turn of the mark loop: the top handle is popped and traced; the node
\* is recorded when tracing it pushed handles
MarkStep ==
    /\ mark.phase = "mark"
    /\ mark.stack # <<>>
    /\ LET n == Len(mark.stack)
           o == mark.stack[n]
           r == TraceMark(Heap(arena, mark.symmarks), funcs, o,
                          SubSeq(mark.stack, 1, n - 1))
       IN  /\ arena' = r.heap.arena
           /\ mark' = [mark EXCEPT !.symmarks = r.heap.symmarks,
                                   !.stack = r.stack,
                                   !.traced = IF Len(r.stack) > n - 1
                                              THEN Append(@, o.ptr) ELSE @]
    /\ UNCHANGED <<treeVars, tagVars, funcs, slots, gcop, parentVars, envVars>>

\* the stack drained: the sweep ends the cycle
SweepStep ==
    /\ mark.phase = "mark"
    /\ mark.stack = <<>>
    /\ arena' = Sweep(Heap(arena, mark.symmarks))
    /\ mark' = NoCycle
    /\ Logged([name |-> "collect",
               freed |-> {arena[a].kind : a \in {b \in Addrs :
                              arena[b].kind # "Free" /\ arena'[b].kind = "Free"}}])
    /\ UNCHANGED <<funcs, slots>>

\* SpecMark: conses, cycles among them, function slots and root slots, and
\* collection cycles that run one handle at a time until the sweep
NextMark ==
    AllocConsMark \/ ConsSetMark \/ FsetMark \/ RootMark \/ UnrootMark
        \/ StartMark \/ MarkStep \/ SweepStep

\* once started, garbage_collect runs its loop and its sweep to the end
SpecMark == Init /\ [][NextMark]_vars /\ WF_vars(MarkStep) /\ WF_vars(SweepStep)

\* ---- display of conses ---------------------------------------------------
\* Cons::new(car, cdr).into_obj(arena) with the integer 1, nil or a body as
\* car
AllocConsShow ==
    \E car \in {IntOne} \cup Objects(arena), cdr \in Objects(arena) :
        Alloc(Body("Cons", <<car, cdr>>, TRUE))

\* format!("{cons}") of a cons of the arena; the text is recorded
DisplayCall == \E a \in Addrs :
    /\ arena[a].kind = "Cons"
    /\ Called([name |-> "display", target |-> a,
               out |-> Display(arena, HandleOf(arena, a))])
    /\ UNCHANGED <<arena, funcs, slots>>

\* SpecShow: conses, set_car and set_cdr calls that close cycles among them,
\* and displays
NextShow == AllocConsShow \/ ConsSetMark \/ DisplayCall

SpecShow == Init /\ [][NextShow]_vars

\* ---- equality of conses --------------------------------------------------
\* equal(obj1, obj2) on two values; the answer is recorded
EqualCall == \E a \in {IntObj, IntOne} \cup Objects(arena) :
             \E b \in {IntObj, IntOne} \cup Objects(arena) :
    /\ Called([name |-> "equal", a |-> a, b |-> b, result |-> Equal(arena, a, b)])
    /\ UNCHANGED <<arena, funcs, slots>>

\* SpecEq: conses, set_car and set_cdr calls that close cycles among them,
\* and equal calls
NextEq == AllocConsShow \/ ConsSetMark \/ EqualCall

SpecEq == Init /\ [][NextEq]_vars

\* SpecConst: allocations in const and mutable contexts and mutation attempts
NextConst == AllocConsAny \/ AllocVecAny \/ ConsSetCall \/ BorrowMutCall

SpecConst == Init /\ [][NextConst]_vars

\* ---- conversions to and from handles -------------------------------------
\* the values near zero, near the ends of the fixnum range, near the ends of
\* the word, and near the ends of lo..hi, that lie in lo..hi
Samples(lo, hi) ==
    LET centres == {0, MIN_FIXNUM, MAX_FIXNUM, I64Min, I64Max, Word - 1, lo, hi}
    IN  {x \in UNION {(c - MaxNear)..(c + MaxNear) : c \in centres} :
            lo <= x /\ x <= hi}

\* the addresses of bodies: they fit the payload of a handle
Pointers == Samples(0, (2 ^ (WordBits - TagBits)) - 1)

\* the conversion is recorded; the tree and the arena are not involved
Converted(bits, entry) ==
    /\ obj' = bits
    /\ conv' = entry
    /\ UNCHANGED <<treeVars, gcVars, markVars, parentVars, envVars>>

\* x.tag() for the integer types, Object::from(x) for usize
TagIntegerCall == \E type \in IntTypes : \E x \in Samples(TypeMin(type), TypeMax(type)) :
    Converted(TagInteger(type, x), [type |-> type, name |-> "tag", input |-> x])

\* T::tag_ptr(ptr) for the base types other than i64: the handle of a body,
\* a subr or a symbol
TagPtrCall == \E name \in TagNames \ {"Int"}, ptr \in Pointers :
    Converted(FromPtr(ptr, Tag[name]), [type |-> name, name |-> "tag_ptr", input |-> ptr])

\* Number::try_from(obj) / List::try_from(obj) / Function::try_from(obj)
TryFromCall == \E view \in {"Number", "List", "Function"} :
    Converted(obj, [name |-> "try_from", view |-> view,
                    result |-> TryFrom(view, obj), input |-> obj])

\* obj.untag().tag() in a view that holds the handle
RetagCall == \E view \in {"Object", "Number", "List", "Function"} :
    /\ view # "Object" => TryFrom(view, obj).ok
    /\ Converted(TagVariant(view, Untag(view, obj)),
                 [name |-> "retag", view |-> view, input |-> obj])

\* obj.is_nil()
IsNilCall == Converted(obj, [name |-> "is_nil", result |-> IsNil(obj), input |-> obj])

\* SpecTag: conversions in any order
NextTag == TagIntegerCall \/ TagPtrCall \/ TryFromCall \/ RetagCall \/ IsNilCall

SpecTag == Init /\ [][NextTag]_vars

\* ---- properties of the metric tree ---------------------------------------
\* the root's total metric
Total(n) == NodeMetrics(n)

\* the component of a metric that a search of the given type goes by
Key(type, m) == IF type = BYTE THEN m.bytes ELSE m.chars

\* the cumulative metrics at the leaf boundaries, from the start of the first
\* leaf to the end of the last one
Boundaries(n) ==
    LET ls == LeafMetrics(n)
    IN  {MSum(SubSeq(ls, 1, j)) : j \in 0..Len(ls)}

\* the summary invariants of every node of the tree
RECURSIVE SummariesOk(_)
SummariesOk(n) ==
    /\ Len(n.metrics) = Len(n.children)
    /\ n.leaf \/ \A i \in 1..Len(n.children) :
           /\ i <= Len(n.metrics) => n.metrics[i] = NodeMetrics(n.children[i])
           /\ SummariesOk(n.children[i])

\* every node below the root has between MIN and MAX children
RECURSIVE Sizes(_, _)
Sizes(n, isRoot) ==
    /\ isRoot \/ (Len(n.children) >= MIN /\ Len(n.children) <= MAX)
    /\ n.leaf \/ \A i \in 1..Len(n.children) : Sizes(n.children[i], FALSE)

\* some node with internal children below the root has fewer than MIN children
RECURSIVE InternalUnderMin(_, _)
InternalUnderMin(n, isRoot) ==
    /\ ~n.leaf
    /\ \/ ~isRoot /\ Len(n.children) < MIN
       \/ \E i \in 1..Len(n.children) : InternalUnderMin(n.children[i], FALSE)

\* the depths at which the leaves of the tree sit
RECURSIVE Depths(_)
Depths(n) ==
    IF n.leaf THEN (IF Len(n.children) = 0 THEN {} ELSE {1})
    ELSE UNION {{d + 1 : d \in Depths(n.children[i])} : i \in 1..Len(n.children)}

\* the height of the tree along its first children
RECURSIVE Height(_)
Height(n) == IF n.leaf \/ Len(n.children) = 0 THEN 1 ELSE 1 + Height(n.children[1])

\* ---- claims --------------------------------------------------------------
\* root is always the tree left by the last call that returned normally (a
\* call that panics leaves root as it was and ends the run), so an invariant on
\* root speaks of the trees that sequences of normally returning calls produce.

\* C1: after any sequence of insert, delete, delete_range, add and remove
\* calls that each return normally, every node's summary vector is as long as
\* its child list, every summary of a node with internal children equals the
\* sum of the summaries stored in that child, and so the root's total metric
\* equals the in-order sum of the leaf metrics.
C1_SummaryInvariants ==
    /\ SummariesOk(root)
    /\ Total(root) = MSum(LeafMetrics(root))

\* a delete_range returned on a tree with internal children and removed leaves
C1_Witness ==
    /\ op.name = "delete_range" /\ ~panicked
    /\ ~prev.leaf /\ ~root.leaf
    /\ LeafCount(root) < LeafCount(prev)

C3_SearchBoundary ==
    (op.name = "search" /\ LeafCount(root) > 0
        /\ \E b \in Boundaries(root) : Key(op.type, b) = op.needle)
    => /\ ~panicked
       /\ \A b \in Boundaries(root) :
              Key(op.type, b) = op.needle => op.result = b

\* a search for a leaf boundary of a tree that holds leaves panicked
C3_Witness ==
    /\ op.name = "search" /\ panicked
    /\ LeafCount(root) > 0
    /\ \E b \in Boundaries(root) : Key(op.type, b) = op.needle

\* C4: whenever delete_range(start, end) with 0 <= start.chars <= end.chars
\* <= total chars returns, the root's total metric is the previous total minus
\* (end - start) in both components, whether the range lies inside one leaf,
\* spans several leaves of one node or spans several children of an internal
\* node.
C4_DeleteRangeTotal ==
    (op.name = "delete_range" /\ ~panicked
        /\ op.start.chars <= op.end.chars
        /\ op.end.chars <= Total(prev).chars)
    => /\ Fits(op.end, op.start)
       /\ Fits(Total(prev), MSub(op.end, op.start))
       /\ Total(root) = MSub(Total(prev), MSub(op.end, op.start))

\* a delete_range returned whose range starts inside one child of an internal
\* root and ends in a later child
C4_Witness ==
    /\ op.name = "delete_range" /\ ~panicked
    /\ op.start.chars < op.end.chars
    /\ op.end.chars <= Total(prev).chars
    /\ ~prev.leaf
    /\ LET g == GetDeleteIndices(prev, op.start, op.end)
       IN  ~g.panic /\ g.start_idx < g.end_idx /\ g.start.bytes # 0

\* C5: delete(pos) with pos.chars < total chars on a tree with at least two
\* leaves leaves the root's total metric unchanged and reduces the number of
\* leaves by exactly one, over any number of consecutive deletes.
C5_DeleteOneLeaf ==
    (op.name = "delete" /\ op.pos.chars < Total(prev).chars
        /\ LeafCount(prev) >= 2)
    => /\ ~panicked
       /\ Total(root) = Total(prev)
       /\ LeafCount(root) = LeafCount(prev) - 1

\* a delete inside a tree of at least two leaves panicked
C5_Witness ==
    /\ op.name = "delete" /\ panicked
    /\ op.pos.chars < Total(prev).chars
    /\ LeafCount(prev) >= 2

\* C6: insert(m) adds exactly one leaf; if m.chars is less than the total
\* chars the root's total metric is unchanged, and if m.chars is at or past
\* the end the root's total metric becomes exactly m.
C6_InsertOneLeaf ==
    op.name = "insert"
    => /\ ~panicked
       /\ LeafCount(root) = LeafCount(prev) + 1
       /\ Total(root) = IF op.m.chars < Total(prev).chars THEN Total(prev) ELSE op.m

\* an insert into a tree that holds leaves panicked
C6_Witness ==
    /\ op.name = "insert" /\ panicked
    /\ LeafCount(prev) > 0

C8_AddRemove ==
    (op.name = "add" /\ op.char_pos <= Total(prev).chars)
    => /\ ~panicked
       /\ LET r == RemoveRoot(root, op.char_pos, op.delta)
          IN  ~r.panic /\ r.root = prev

\* an add at a position inside a tree that holds leaves panicked
C8_Witness ==
    /\ op.name = "add" /\ panicked
    /\ op.char_pos <= Total(prev).chars
    /\ LeafCount(prev) > 0

\* C9: after any sequence of insert, delete and delete_range calls that
\* return normally, every node below the root, the nodes whose children are
\* leaves included, has at least MIN = 2 and at most MAX = 4 children.
C9_NodeSizes == Sizes(root, TRUE)

\* a node with internal children, below the root, has fewer than MIN children
C9_Witness == ~panicked /\ InternalUnderMin(root, TRUE)

\* C10: after any sequence of insert, delete and delete_range calls that
\* return normally, all leaves of the tree sit at the same depth.
C10_LeavesSameDepth == Cardinality(Depths(root)) <= 1

\* a delete or delete_range returned on a tree of three levels and the tree
\* lost a level
C10_Witness ==
    /\ op.name \in {"delete", "delete_range"} /\ ~panicked
    /\ Height(prev) >= 3
    /\ Height(root) < Height(prev)
    /\ LeafCount(root) >= 2

\* C11: after any sequence of insert, delete and delete_range calls that
\* return normally, the root holds leaves directly or has at least two
\* children: it is never a node with internal children and zero or one child.
C11_RootShape == root.leaf \/ Len(root.children) >= 2

\* a delete_range returned on a root with at least two internal children and
\* left a root with internal children and fewer than two of them
C11_Witness ==
    /\ op.name = "delete_range"
    /\ ~panicked
    /\ ~prev.leaf
    /\ Len(prev.children) >= 2
    /\ ~root.leaf
    /\ Len(root.children) < 2

\* C12: a collection cycle run at a safe point keeps every body reachable
\* from a root slot (through car and cdr, vector and record elements, hash
\* table keys and values, symbol function slots) in the arena with its
\* contents unchanged, and every handle bound from a root slot stays valid.
C12_ReachableSurvive ==
    [][gcop'.name = "collect" =>
        /\ \A n \in Reachable(arena, funcs, slots) \cap Addrs : arena'[n] = arena[n]
        /\ \A i \in 1..Len(slots') : Valid(arena', Bind(slots'[i]))]_vars

\* a cycle freed a body and kept a rooted body together with a body that only
\* a field of the rooted one names
C12_Witness ==
    /\ gcop.name = "collect"
    /\ gcop.freed # {}
    /\ \E i \in 1..Len(slots) :
           /\ InArena(slots[i])
           /\ \E k \in 1..Len(arena[slots[i].ptr].fields) :
                  LET f == arena[slots[i].ptr].fields[k]
                  IN  InArena(f) /\ f.ptr # slots[i].ptr /\ arena[f.ptr].kind = f.tag

\* C13: after a collection cycle no body of the arena that was unreachable
\* from every root slot remains (symbols are not bodies of the arena): of a
\* cons (a . b) of two strings with only a rooted, a stays and b and the cons
\* are freed.
C13_UnreachableFreed ==
    [][gcop'.name = "collect" =>
        \A a \in Addrs \ Reachable(arena, funcs, slots) : arena'[a] = Free]_vars

\* a cycle freed a cons and a string and left the rooted string as the only
\* body of the arena
C13_Witness ==
    /\ gcop.name = "collect"
    /\ gcop.freed = {"Cons", "String"}
    /\ Len(slots) = 1
    /\ slots[1].tag = "String"
    /\ Bodies(arena) = {slots[1]}

\* C14: tagging an i64 and untagging the handle gives the value back when it
\* lies in MIN_FIXNUM..MAX_FIXNUM, MAX_FIXNUM when it is larger and MIN_FIXNUM
\* when it is smaller, and the handle carries the Int tag.
C14_FixnumClamp ==
    (conv.name = "tag" /\ conv.type = "i64") =>
        /\ GetTag(obj) = Tag.Int
        /\ UntagI64(obj) = (IF conv.input > MAX_FIXNUM THEN MAX_FIXNUM
                            ELSE IF conv.input < MIN_FIXNUM THEN MIN_FIXNUM
                            ELSE conv.input)

\* i64::MIN was tagged and the handle holds MIN_FIXNUM
C14_Witness ==
    /\ conv.name = "tag"
    /\ conv.type = "i64"
    /\ conv.input = I64Min
    /\ UntagI64(obj) = MIN_FIXNUM

\* C15: every conversion of an integer to a handle (tag for i64, i32, u32,
\* u16, u64 and usize, From<usize>) gives an Int handle whose value is the
\* value of the input saturated to MIN_FIXNUM..MAX_FIXNUM.
C15_IntegersSaturate ==
    conv.name = "tag" =>
        /\ GetTag(obj) = Tag.Int
        /\ UntagI64(obj) = (IF conv.input > MAX_FIXNUM THEN MAX_FIXNUM
                            ELSE IF conv.input < MIN_FIXNUM THEN MIN_FIXNUM
                            ELSE conv.input)

\* Object::from of a usize above MAX_FIXNUM gave a handle that holds a
\* negative integer
C15_Witness ==
    /\ conv.name = "tag"
    /\ conv.type = "from_usize"
    /\ conv.input > MAX_FIXNUM
    /\ UntagI64(obj) < 0

\* C16: narrowing a handle to Number, List or Function succeeds exactly when
\* its tag is Int or Float, when it is nil or a Cons, when its tag is Cons,
\* Symbol, SubrFn or ByteFn; on success the result has the bits of the
\* handle, otherwise it is a TypeError with the expected type and the handle;
\* the handle is left as it was.
C16_NarrowByTag ==
    conv.name = "try_from" =>
        LET name == TagName(GetTag(conv.input))
            accepted ==
                IF conv.view = "Number" THEN name \in {"Int", "Float"}
                ELSE IF conv.view = "List" THEN conv.input = 0 \/ name = "Cons"
                ELSE name \in {"Cons", "Symbol", "SubrFn", "ByteFn"}
            expected ==
                IF conv.view = "Number" THEN "Number"
                ELSE IF conv.view = "List" THEN "List" ELSE "Func"
        IN  /\ conv.result.ok = accepted
            /\ conv.result.value = conv.input
            /\ ~conv.result.ok => conv.result.expected = expected
            /\ obj = conv.input

\* a symbol other than nil was refused as a List
C16_Witness ==
    /\ conv.name = "try_from"
    /\ conv.view = "List"
    /\ GetTag(conv.input) = Tag.Symbol
    /\ conv.input # 0
    /\ ~conv.result.ok
    /\ conv.result.expected = "List"

\* C18: for a handle h of any tag, in every view that holds it, tagging the
\* variant h untags to gives a handle with the bits of h (ptr_eq), so that
\* untagging it again gives the same variant.
C18_RetagIdentity ==
    conv.name = "retag" =>
        /\ obj = conv.input
        /\ Untag(conv.view, obj) = Untag(conv.view, conv.input)

\* a handle whose payload has its top bit set (a negative integer, a high
\* address) was untagged and tagged again
C18_Witness ==
    /\ conv.name = "retag"
    /\ conv.input >= Word \div 2
    /\ obj = conv.input

\* C17: every attempt to mutate a body allocated in a const context (set_car
\* or set_cdr on a cons, a mutable borrow of a vector) fails with an error and
\* leaves the body, and every other body, as it was; this includes the conses
\* and vectors held inside const bodies.
C17_ConstImmutable ==
    [][(/\ gcop'.name \in {"set_car", "set_cdr", "borrow_mut"}
        /\ ~arena[gcop'.target].mutable)
       => (~gcop'.ok /\ arena' = arena)]_vars

\* set_car failed on a const cons that is an element of a const vector which
\* is the cdr of a const cons
C17_Witness ==
    /\ gcop.name = "set_car"
    /\ ~gcop.ok
    /\ ~arena[gcop.target].mutable
    /\ \E v \in Addrs, c \in Addrs :
           /\ arena[v].kind = "Vec" /\ ~arena[v].mutable
           /\ arena[v].fields[1] = HandleOf(arena, gcop.target)
           /\ arena[c].kind = "Cons" /\ ~arena[c].mutable
           /\ arena[c].fields[2] = HandleOf(arena, v)

\* the tree after root.insert(metric(1)), ..., root.insert(metric(n)) in this
\* order, as the loop of test_search_chars builds it; [panic, root]
RECURSIVE InsertRun(_, _)
InsertRun(self, n) ==
    IF n = 0 THEN [panic |-> FALSE, root |-> self]
    ELSE LET t == InsertRun(self, n - 1)
         IN  IF t.panic THEN t ELSE InsertRoot(t.root, metric(n))

\* the assertions of test_search_chars on the run of length n:
\* search_char(i).bytes == 2 * i for every i in [0, n]
RunSearches(self, n) ==
    LET t == InsertRun(self, n)
    IN  /\ ~t.panic
        /\ \A i \in 0..n :
               LET r == SearchChar(t.root, i)
               IN  ~r.panic /\ r.metric.bytes = 2 * i

\* C19: after insert(m) returns there is a leaf boundary at cumulative char
\* position m.chars, whether m fell inside an existing leaf or at or past the
\* end, and search_char(m.chars) returns exactly m; consequently, inserting
\* metric(1), ..., metric(n) in order into the empty tree gives a tree on
\* which search_char(i).bytes = 2 * i for every i in [0, n].
C19_InsertBoundary ==
    /\ (op.name = "insert" /\ ~panicked)
       => /\ op.m \in Boundaries(root)
          /\ LET r == SearchChar(root, op.m.chars)
             IN  ~r.panic /\ r.metric = op.m
    /\ root = NewRoot => \A n \in 1..MaxRun : RunSearches(root, n)

\* an insert strictly inside an existing leaf of a tree of two levels, at a
\* position that was no boundary before
C19_Witness ==
    /\ op.name = "insert"
    /\ ~panicked
    /\ ~prev.leaf
    /\ op.m.chars < NodeMetrics(prev).chars
    /\ op.m \notin Boundaries(prev)
    /\ op.m \in Boundaries(root)

\* the two edge children of the multi-child branch of delete_range on self
\* at its match on (left_needed, right_needed): whether the branch is taken
\* and got that far, and for each edge whether a child survives there with
\* fewer than MIN children
EdgesAtMatch(self, start, end) ==
    LET g == GetDeleteIndices(self, start, end)
        none == [multi |-> FALSE, left |-> FALSE, right |-> FALSE]
    IN  IF self.leaf \/ ~AssertInvariants(self) \/ g.panic THEN none
        ELSE IF g.start_idx = g.end_idx THEN none
        ELSE
        LET start_delete == StartDelete(g.start, g.start_idx)
            end_delete == EndDelete(g.end, g.end_idx, At(self.metrics, g.end_idx).bytes)
            lft == IF start_delete > g.start_idx
                   THEN DeleteRangeEdge(self.children, self.metrics, g.start_idx,
                            DeleteRange(At(self.children, g.start_idx), g.start,
                                        At(self.metrics, g.start_idx)),
                            TRUE)
                   ELSE EdgeUntouched(self.children, self.metrics)
        IN  IF lft.panic THEN none
            ELSE
            LET rgt == IF end_delete <= g.end_idx
                       THEN DeleteRangeEdge(lft.children, lft.metrics, g.end_idx,
                                DeleteRange(At(lft.children, g.end_idx),
                                            MetricDefault, g.end),
                                FALSE)
                       ELSE EdgeUntouched(lft.children, lft.metrics)
            IN  IF rgt.panic THEN none
                ELSE [multi |-> TRUE,
                      left |-> /\ start_delete > g.start_idx
                               /\ NodeLen(At(rgt.children, g.start_idx)) < MIN,
                      right |-> /\ end_delete <= g.end_idx
                                /\ NodeLen(At(rgt.children, g.end_idx)) < MIN]

\* C20: when delete_range spans several children of an internal node whose
\* nodes all had MIN to MAX children, and exactly one of the two edge
\* children is left with fewer than MIN children, delete_range returns
\* normally and has rebalanced that child by a steal or a merge: no child of
\* the node is below MIN afterwards.
C20_OneEdgeRebalanced ==
    (/\ op.name = "delete_range"
     /\ Sizes(prev, TRUE)
     /\ LET e == EdgesAtMatch(prev, op.start, op.end)
        IN  e.multi /\ (e.left # e.right))
    => /\ ~panicked
       /\ \A i \in 1..Len(root.children) : NodeLen(root.children[i]) >= MIN

\* a delete_range over several children of a well-sized root returned with
\* exactly one edge child cut below MIN
C20_Witness ==
    /\ op.name = "delete_range"
    /\ ~panicked
    /\ Sizes(prev, TRUE)
    /\ LET e == EdgesAtMatch(prev, op.start, op.end)
       IN  e.multi /\ (e.left # e.right)

\* C21: in every state reached from new_root() by insert, delete,
\* delete_range, add and remove calls that return normally the tree holds at
\* least one leaf, and the fresh tree is exactly one leaf of metric (0,0).
C21_AtLeastOneLeaf ==
    /\ op.name = "new_root" => LeafMetrics(root) = <<MetricDefault>>
    /\ LeafCount(root) >= 1

\* a delete_range that covered leaves of the tree returned normally
C21_Witness ==
    /\ op.name = "delete_range"
    /\ ~panicked
    /\ LeafCount(root) < LeafCount(prev)

\* C22: when a collection cycle returns, is_marked answers false for every
\* body still in the arena, and a second cycle with the same roots, with no
\* allocation or mutation in between, keeps exactly the same bodies.
C22_MarksCleared ==
    [][gcop'.name = "collect"
       => /\ \A o \in Bodies(arena') : ~IsMarked(Heap(arena', {}), o)
          /\ GarbageCollect(arena', funcs', slots') = arena']_vars

\* a cycle freed a body and kept a rooted cons together with what it holds
C22_Witness ==
    /\ gcop.name = "collect"
    /\ gcop.freed # {}
    /\ \E c \in Addrs, d \in Addrs :
           /\ c # d
           /\ arena[c].kind = "Cons"
           /\ HandleOf(arena, c) \in {slots[i] : i \in 1..Len(slots)}
           /\ arena[d].kind # "Free"
           /\ HandleOf(arena, d) \in {arena[c].fields[i] : i \in 1..2}

\* C23: the mark phase terminates on every object graph, cyclic ones
\* included: a cycle that started reaches its sweep; each node has its
\* outgoing handles pushed at most once per cycle; and no Int or SubrFn handle
\* is ever on the work stack.
C23_MarkTerminates ==
    /\ [](mark.phase = "mark"
          => /\ \A i \in 1..Len(mark.stack) :
                    mark.stack[i].tag \notin {"Int", "SubrFn"}
             /\ \A i \in 1..Len(mark.traced) : \A j \in 1..Len(mark.traced) :
                    mark.traced[i] = mark.traced[j] => i = j)
    /\ (mark.phase = "mark") ~> (mark.phase = "idle")

\* the mark loop drained its stack on a cons whose cdr is the cons itself and
\* whose car is an integer
C23_Witness ==
    /\ mark.phase = "mark"
    /\ mark.stack = <<>>
    /\ \E c \in Addrs :
           /\ arena[c].kind = "Cons"
           /\ arena[c].fields = <<IntObj, HandleOf(arena, c)>>
           /\ arena[c].marked
           /\ \E i \in 1..Len(mark.traced) : mark.traced[i] = c

SelfList(c) == arena[c].kind = "Cons" /\ arena[c].fields = <<IntOne, HandleOf(arena, c)>>

C26_IsNil ==
    /\ Tag.Symbol = 0
    /\ FromPtr(0, Tag.Symbol) = NilBits
    /\ conv.name = "is_nil" => (conv.result <=> PtrEq(obj, NilBits))

\* is_nil was asked of the integer 0 or of a symbol other than nil
C26_Witness ==
    /\ conv.name = "is_nil"
    /\ ~conv.result
    /\ \/ obj = TagI64(0)
       \/ (GetTag(obj) = Tag.Symbol /\ obj # NilBits)

\* the node and the overflow that insert_impl leaves at self split in halves:
\* the left node has MAX / 2 children and the right one the other
\* MAX + 1 - MAX / 2, the left ones being the first children the node had
HalvedAt(self, idx, r) ==
    r.new.some =>
        /\ Len(r.node.children) = MAX \div 2
        /\ Len(r.node.metrics) = MAX \div 2
        /\ Len(r.new.node.children) = MAX + 1 - MAX \div 2
        /\ Len(r.new.node.metrics) = MAX + 1 - MAX \div 2
        /\ \A i \in 1..(MAX \div 2) :
               i # idx + 1 => /\ r.node.children[i] = self.children[i]
                              /\ r.node.metrics[i] = self.metrics[i]

\* every node on the descent of insert_impl(needle0) from self that overflows
\* is split in halves
RECURSIVE SplitsInHalves(_, _)
SplitsInHalves(self, needle0) ==
    LET r == InsertImpl(self, needle0)
        s == InsertScan(self.metrics, 0, needle0)
    IN  r.panic \/ (/\ HalvedAt(self, s.idx, r)
                    /\ self.leaf \/ SplitsInHalves(At(self.children, s.idx), s.needle))

\* the number of nodes on the descent of insert_impl(needle0) from self that
\* overflow
RECURSIVE Overflows(_, _)
Overflows(self, needle0) ==
    LET r == InsertImpl(self, needle0)
        s == InsertScan(self.metrics, 0, needle0)
    IN  IF r.panic THEN 0
        ELSE (IF r.new.some THEN 1 ELSE 0)
             + (IF self.leaf THEN 0 ELSE Overflows(At(self.children, s.idx), s.needle))

\* C27: whenever an insert makes a node overflow, the node is split so that
\* the left node keeps exactly the first MAX / 2 children with their
\* summaries and the right sibling handed to the parent receives all the
\* remaining children in their original order.
C27_SplitHalves ==
    (op.name = "insert" /\ ~panicked) => SplitsInHalves(prev, op.m)

\* an insert overflowed a node and every overflowing node was split in halves
C27_Witness ==
    /\ op.name = "insert" /\ ~panicked
    /\ Overflows(prev, op.m) > 0
    /\ SplitsInHalves(prev, op.m)

\* what the rebalancing of children[idx] did, read off the node's children
\* before (children, with the underfull child at idx) and after (r): a steal
\* leaves the child count as it was and the donor one child shorter, a merge
\* removes one child of the node
StoleFrom(children, r, donor) ==
    /\ donor >= 0 /\ donor < Len(children)
    /\ Len(r.children) = Len(children)
    /\ Len(At(r.children, donor).children) = Len(At(children, donor).children) - 1

MergedAt(children, r, right_idx) ==
    /\ Len(r.children) = Len(children) - 1
    /\ \A j \in 0..(Len(children) - 1) :
           /\ j < right_idx - 1 => At(r.children, j) = At(children, j)
           /\ j > right_idx => At(r.children, j - 1) = At(children, j)

\* a sibling that has more than MIN children
CanDonate(children, i) ==
    i >= 0 /\ i < Len(children) /\ Len(At(children, i).children) > MIN

\* the rebalancing of children[idx] follows the rule: a donor has more than
\* MIN children and keeps at least MIN, left before right, a merge only when
\* neither can donate, with the left sibling when there is one
RebalancedByRule(children, r, idx) ==
    /\ \/ StoleFrom(children, r, idx - 1)
       \/ StoleFrom(children, r, idx + 1)
       \/ MergedAt(children, r, IF idx # 0 THEN idx ELSE idx + 1)
    /\ StoleFrom(children, r, idx - 1) =>
           /\ CanDonate(children, idx - 1)
           /\ Len(At(r.children, idx - 1).children) >= MIN
    /\ StoleFrom(children, r, idx + 1) =>
           /\ CanDonate(children, idx + 1) /\ ~CanDonate(children, idx - 1)
           /\ Len(At(r.children, idx + 1).children) >= MIN
    /\ Len(r.children) = Len(children) - 1 =>
           /\ ~CanDonate(children, idx - 1) /\ ~CanDonate(children, idx + 1)
           /\ MergedAt(children, r, IF idx # 0 THEN idx ELSE idx + 1)

\* every rebalancing on the descent of delete_impl(pos0) from self follows
\* the rule
RECURSIVE RebalancesByRule(_, _)
RebalancesByRule(self, pos0) ==
    LET r == DeleteImpl(self, pos0)
        s == DeleteScan(self.metrics, 0, pos0)
    IN  r.panic \/ self.leaf
        \/ LET c == DeleteImpl(At(self.children, s.idx), s.pos)
           IN  /\ RebalancesByRule(At(self.children, s.idx), s.pos)
               /\ c.needs_merge =>
                      RebalancedByRule(SeqSet(self.children, s.idx, c.node),
                                       r.node, s.idx)

\* the number of rebalancings on the descent of delete_impl(pos0) from self
RECURSIVE Rebalancings(_, _)
Rebalancings(self, pos0) ==
    LET r == DeleteImpl(self, pos0)
        s == DeleteScan(self.metrics, 0, pos0)
    IN  IF r.panic \/ self.leaf THEN 0
        ELSE (IF DeleteImpl(At(self.children, s.idx), s.pos).needs_merge THEN 1 ELSE 0)
             + Rebalancings(At(self.children, s.idx), s.pos)

\* C28: during delete rebalancing a sibling donates a child only if it has
\* more than MIN children, so the donor keeps at least MIN; the left sibling
\* is tried before the right one, and a merge (with the left sibling when one
\* exists, otherwise the right) happens only when neither can donate and
\* takes exactly one child from the parent.
C28_StealThenMerge ==
    (op.name = "delete" /\ ~panicked) => RebalancesByRule(prev, op.pos)

\* a delete rebalanced a child and did so by the rule
C28_Witness ==
    /\ op.name = "delete" /\ ~panicked
    /\ Rebalancings(prev, op.pos) > 0
    /\ RebalancesByRule(prev, op.pos)

\* the number of levels of nodes of the tree: 1 for a node that holds leaves
\* or has no child, otherwise one more than its deepest child
RECURSIVE Levels(_)
Levels(n) ==
    IF n.leaf \/ Len(n.children) = 0 THEN 1
    ELSE LET hs == {Levels(n.children[i]) : i \in 1..Len(n.children)}
         IN  1 + CHOOSE h \in hs : \A g \in hs : g <= h

\* C29: the height changes only at the root: it grows by one exactly when an
\* insert overflows the root, the new root having exactly two children, the
\* old root on the left and the overflow node on the right, with summaries
\* equal to their totals; it shrinks by one exactly when a delete leaves the
\* root with a single internal child, which then becomes the root; no other
\* call changes it.
C29_HeightAtRoot ==
    /\ (op.name = "insert" /\ ~panicked) =>
           LET r == InsertImpl(prev, op.m)
           IN  IF r.new.some
               THEN /\ Levels(root) = Levels(prev) + 1
                    /\ ~root.leaf
                    /\ root.children = <<r.node, r.new.node>>
                    /\ root.metrics = <<NodeMetrics(r.node), NodeMetrics(r.new.node)>>
               ELSE Levels(root) = Levels(prev)
    /\ (op.name = "delete" /\ ~panicked) =>
           LET r == DeleteImpl(prev, op.pos)
           IN  IF ~r.node.leaf /\ Len(r.node.children) = 1
               THEN /\ Levels(root) = Levels(prev) - 1
                    /\ root = r.node.children[1]
               ELSE Levels(root) = Levels(prev)
    /\ (op.name \notin {"insert", "delete"} \/ panicked) =>
           Levels(root) = Levels(prev)

\* an insert that overflowed the root, or a delete that left the root with a
\* single child, in a tree of more than one level
C29_Witness ==
    /\ ~panicked
    /\ \/ /\ op.name = "insert"
          /\ InsertImpl(prev, op.m).new.some
          /\ ~prev.leaf
       \/ /\ op.name = "delete"
          /\ Len(DeleteImpl(prev, op.pos).node.children) = 1
          /\ Levels(prev) = 3

\* the number of leaves under the first c children of n
RECURSIVE LeavesUnder(_, _)
LeavesUnder(n, c) ==
    IF c = 0 THEN 0 ELSE LeavesUnder(n, c - 1) + LeafCount(n.children[c])

\* the first leaf in order, counted from 1, whose cumulative char end is at
\* least char_pos; 0 when there is none
TargetLeaf(n, char_pos) ==
    LET ls == LeafMetrics(n)
        hit == {j \in 1..Len(ls) : MSum(SubSeq(ls, 1, j)).chars >= char_pos}
    IN  IF hit = {} THEN 0 ELSE CHOOSE j \in hit : \A i \in hit : j <= i

\* b is a with the summary of its k-th leaf and the summaries of that leaf's
\* ancestors changed by d (added when plus, subtracted otherwise) and nothing
\* else changed: same kinds of node, same child counts, same other summaries
RECURSIVE AdjustedAlong(_, _, _, _, _)
AdjustedAlong(a, b, k, d, plus) ==
    LET c == IF a.leaf THEN k
             ELSE CHOOSE i \in 1..Len(a.children) :
                      LeavesUnder(a, i - 1) < k /\ k <= LeavesUnder(a, i)
    IN  /\ b.leaf = a.leaf
        /\ Len(b.children) = Len(a.children)
        /\ Len(b.metrics) = Len(a.metrics)
        /\ \A i \in 1..Len(a.metrics) :
               i # c => /\ b.metrics[i] = a.metrics[i]
                        /\ b.children[i] = a.children[i]
        /\ IF plus THEN b.metrics[c] = MAdd(a.metrics[c], d)
           ELSE Fits(a.metrics[c], d) /\ b.metrics[c] = MSub(a.metrics[c], d)
        /\ IF a.leaf THEN b.children[c] = a.children[c]
           ELSE AdjustedAlong(a.children[c], b.children[c],
                              k - LeavesUnder(a, c - 1), d, plus)

C31_EmptyRangeNoOp ==
    (/\ op.name = "delete_range" /\ op.start = op.end
     /\ op.start.chars <= NodeMetrics(prev).chars)
    => ~panicked /\ root = prev

\* delete_range was called with an empty range inside a leaf, off every leaf
\* boundary, and left the tree as it was
C31_Witness ==
    /\ op.name = "delete_range" /\ op.start = op.end
    /\ ~panicked /\ root = prev
    /\ op.start \notin Boundaries(prev)
    /\ op.start.chars < NodeMetrics(prev).chars

\* the addresses the claim speaks of: below 2^55 for a word of 64 bits, the
\* addresses whose shifted word has its top bit clear
LowPointers == {p \in Pointers : p < 2 ^ (WordBits - TagBits - 1)}

\* the handles of the bodies at those addresses, for every tag, and of the
\* integers near zero and near the ends of the fixnum range
SampleHandles ==
    {FromPtr(p, Tag[n]) : p \in LowPointers, n \in TagNames \ {"Int"}}
    \cup {TagI64(y) : y \in Samples(I64Min, I64Max)}

\* C32: for every tag and every body address below 2^55 (here: below half of
\* the payload range) tagging gives a handle whose low byte is the tag and
\* whose untagged address is the original one; two handles are ptr_eq
\* exactly when they have the same tag and the same address or integer
\* payload.
C32_TagRoundTrip ==
    /\ (conv.name = "tag_ptr" /\ conv.input \in LowPointers) =>
           /\ GetTag(obj) = Tag[conv.type]
           /\ obj % (2 ^ TagBits) = Tag[conv.type]
           /\ UntagPtr(obj) = [ptr |-> conv.input, tag |-> Tag[conv.type]]
    /\ ((conv.name = "tag_ptr" /\ conv.input \in LowPointers)
        \/ (conv.name = "tag" /\ conv.type = "i64")) =>
           \A h \in SampleHandles :
               PtrEq(obj, h) <=>
                   /\ GetTag(obj) = GetTag(h)
                   /\ IF GetTag(h) = Tag.Int THEN UntagI64(obj) = UntagI64(h)
                      ELSE UntagPtr(obj).ptr = UntagPtr(h).ptr

\* the body at the highest address the claim covers was tagged with the
\* highest tag
C32_Witness ==
    /\ conv.name = "tag_ptr"
    /\ conv.input = (2 ^ (WordBits - TagBits - 1)) - 1
    /\ conv.type = "Buffer"
    /\ UntagPtr(obj).ptr = conv.input

\* C33: in any sequence of insert(m) calls and of delete(p) calls with
\* p.chars less than the current total chars on a tree of at least two
\* leaves, no assertion of assert_invariants, no assert_eq of the split,
\* steal and merge helpers and no unreachable!/todo! is reached: no call
\* panics.
C33_NoPanic ==
    /\ ~panicked
    /\ ~InsertRoot(root, metric(0)).panic
    /\ \A x \in EditPositions :
           (LeafCount(root) >= 2 /\ x < NodeMetrics(root).chars)
           => ~DeleteRoot(root, metric(x)).panic

\* a delete in a tree of three levels rebalanced at both levels and returned
C33_Witness ==
    /\ op.name = "delete" /\ ~panicked
    /\ Levels(prev) = 3
    /\ Rebalancings(prev, op.pos) = 2

\* the leaf, counted from 1, that contains char position pos: the first one
\* whose cumulative char end is greater than pos; 0 when pos is at or past
\* the end
LeafContaining(n, pos) ==
    LET ls == LeafMetrics(n)
        hit == {j \in 1..Len(ls) : MSum(SubSeq(ls, 1, j)).chars > pos}
    IN  IF hit = {} THEN 0 ELSE CHOOSE j \in hit : \A i \in hit : j <= i

RECURSIVE ParentsOk(_)
ParentsOk(n) ==
    \A i \in 1..Len(n.children) :
        /\ n.children[i].parent = PSome(n.addr)
        /\ n.leaf \/ ParentsOk(n.children[i])

\* every internal node's total is the sum of its children's totals
RECURSIVE TotalsOk(_)
TotalsOk(n) ==
    n.leaf \/ (/\ NodeMetrics(n) = MSum([i \in 1..Len(n.children) |->
                                           NodeMetrics(n.children[i])])
               /\ \A i \in 1..Len(n.children) : TotalsOk(n.children[i]))

\* C36: in the tree with parent pointers (main.rs), after any sequence of
\* inserts, with splits of leaf-holding nodes, of internal nodes and of the
\* root, every child node and every leaf has a parent pointer equal to the
\* node that holds it, the root's parent is None, and each internal node's
\* total is the sum of its children's totals.
C36_ParentPointers ==
    /\ ~ptree.panicked
    /\ ptree.root.parent = None
    /\ ParentsOk(ptree.root)
    /\ TotalsOk(ptree.root)

\* the tree has three levels: a leaf-holding node, an internal node and the
\* root have split
C36_Witness ==
    /\ Levels(ptree.root) = 3
    /\ ParentsOk(ptree.root)

\* C37: after any sequence of puts, get(s, p) is the value of the most recent
\* put(s, p, v), nil when there was none; a put on (s, p) leaves get as it
\* was for every other pair; no property list holds two entries with the
\* same property name.
C37_PutGet ==
    /\ \A s \in Symbols, p \in Symbols : Get(env.props, s, p) = env.puts[<<s, p>>]
    /\ env.call.name = "put" =>
           \A s \in Symbols, p \in Symbols :
               <<s, p>> # <<env.call.symbol, env.call.propname>>
               => Get(env.props, s, p) = Get(env.before, s, p)
    /\ \A s \in DOMAIN env.props :
           \A i, j \in 1..Len(env.props[s]) :
               env.props[s][i][1] = env.props[s][j][1] => i = j

\* a property that had a value was put again with another value, on a symbol
\* that has a second property
C37_Witness ==
    /\ env.call.name = "put"
    /\ Get(env.before, env.call.symbol, env.call.propname) \notin {NIL, env.call.value}
    /\ Get(env.props, env.call.symbol, env.call.propname) = env.call.value
    /\ Len(env.props[env.call.symbol]) = 2

====
